---- MODULE Spec2Model ----
(***************************************************************************)
(* A model of the particle mesh of the Tit solver (tit::sph::ParticleMesh), *)
(* of the parallel primitive par::block_for_each that traverses its block   *)
(* edges, and of the graph coarsening and multilevel partitioning            *)
(* (tit::graph::CoarsenHEM, CoarsenGEM, MultilevelPartition).                *)
(*                                                                         *)
(* Particle ids are 1..NumParticles (the source counts from 0), part ids    *)
(* and bucket keys count from 0 as in the source; bucket k of block_edges_  *)
(* is block_edges_[k + 1], level l of a PartVec is entry l + 1.             *)
(* Positions are one-dimensional, in units of 0.01.                         *)
(* Graph nodes and coarse nodes are counted from 1 (the source counts from   *)
(* 0), npos is 0; parts count from 0 as in the source.                       *)
(***************************************************************************)
EXTENDS Integers, Sequences, FiniteSets, TLC

\* ------------------------------------------------------------------ bounds

\* Number of particles of the particle array.
NumParticles == 3
\* par::num_threads(), the size of the worker pool.
NumThreads == 2
\* Number of ParticleMesh::update() calls of one run.
MaxUpdates == 2

\* Number of nodes of the fine graphs, and their greatest node and edge weights.
NumNodes == 4
MaxNodeWeight == 2
MaxEdgeWeight == 2

\* Greatest length of the ranges given to the parallel primitives, and the
\* greatest value of their elements.
MaxLen == 3
MaxValue == 2

\* UniformPartition is called on graphs of up to MaxUniformNodes nodes, for up to
\* MaxUniformParts parts.
MaxUniformNodes == 6
MaxUniformParts == 7

\* MultilevelPartition is also called on path graphs of DeepNodes nodes, large
\* enough for a second level, for up to DeepParts parts.
DeepNodes == 32
DeepParts == 1

\* ------------------------------------------------------- program constants

\* Default of partition_'s num_levels.
NumLevels == 2
\* PartVec::MaxNumLevels.
MaxNumLevels == 4
\* Domain = geom::BBox{Vec{0.0}, Vec{2.0}}, in units of 0.01.
DomainLo == 0
DomainHi == 200
\* The interpolation search radius is 3 * radius_func(a).
InterpRadiusFactor == 3
\* MultilevelPartition stops coarsening at 15 * num_parts coarse nodes, or when
\* coarse nodes * 10 >= fine nodes * 8.
StopFactor == 15
StallNum == 8
StallDen == 10
\* The balance tolerance of the refinement, in percent.
RefineTolerance == 3

\* The positions and search radii the particle arrays are drawn from.
Positions == {-5, 3, 5}
Radii == {1, 3}

ParticleIds == 1..NumParticles

\* ----------------------------------------------------------------- helpers

Abs(x) == IF x < 0 THEN -x ELSE x

Range(s) == {s[i] : i \in DOMAIN s}

\* All the orders in which the elements of a finite set can be listed.
Listings(S) == {s \in [1..Cardinality(S) -> S] : Range(s) = S}

\* std::ranges::sort of a list of indices.
SortIds(s) == SortSeq(s, LAMBDA x, y : x < y)

\* The elements of a sequence of sequences, one after another.
RECURSIVE Flatten(_)
Flatten(ss) == IF ss = <<>> THEN <<>> ELSE Head(ss) \o Flatten(Tail(ss))

\* std::vector::resize: kept entries keep their contents, new ones are empty.
Resize(v, n) == [i \in 1..n |-> IF i <= Len(v) THEN v[i] ELSE <<>>]

VARIABLES
  \* The particle array: positions r, types, and the PartVec of each particle.
  r, type, parinfo,
  \* The radius function update() is called with.
  radius_func,
  \* The function-local static scratch vectors of search_ and partition_.
  adjacency, interp_adjacency, interface,
  \* The members of the mesh.
  adjacency_, interp_adjacency_, block_edges_,
  \* Control: where update() is, the level of partition_, the tasks of the running
  \* par::for_each that did not start yet.
  pc, level, pending,
  \* How the last update() call ended, and the number of update() calls the run
  \* still makes.
  result, calls,
  \* par::block_for_each over block_pairs(): the chunk being processed, the number
  \* of invocations started per bucket, and the invocations <<bucket, index>> that
  \* are running.
  chunk, started, running,
  \* The graph the run calls a coarsening or the partitioning of, the call
  \* ("hem", "gem", "multilevel" or "none"), where it is, and the number of parts
  \* asked for.
  graph, mode, gpc, num_parts,
  \* The fine graph of the running coarsening and what the loop still has to visit.
  fine_graph, unvisited,
  \* The outputs of the coarsening and its counter of coarse nodes.
  coarse_graph, coarse_to_fine, fine_to_coarse, coarse_node,
  \* The indices outside the node ids of the fine graph that the running
  \* coarsening has read a node weight at.
  bad_reads,
  \* MultilevelPartition: the levels entered (fine graph, fine_to_coarse and
  \* coarse graph of each) and the parts of the level being left.
  levels, fine_parts,
  \* The running call of a parallel primitive of tit::par (a record, see ParOff).
  par,
  \* The running call of UniformPartition (a record, see UniformOff).
  uni,
  \* Two meshes of one type updated by two threads (a record, see DuoOff).
  duo

graphVars == <<graph, mode, gpc, num_parts, fine_graph, unvisited, coarse_graph,
               coarse_to_fine, fine_to_coarse, coarse_node, bad_reads, levels,
               fine_parts>>

meshVars == <<r, type, parinfo, radius_func, adjacency, interp_adjacency,
              interface, adjacency_, interp_adjacency_, block_edges_, pc, level,
              pending, result, calls>>
travVars == <<chunk, started, running>>

\* ------------------------------------------------ containers (tit::graph::Graph,
\* tit::Multivector): compressed rows, offsets[0..n] and the flat values.

EmptyMultivector == [offsets |-> <<0>>, values |-> <<>>]

\* Graph::append_bucket / Multivector::append_bucket.
AppendBucket(mv, x) ==
  [offsets |-> Append(mv.offsets, mv.offsets[Len(mv.offsets)] + Len(x)),
   values |-> mv.values \o x]

NumBucketsOf(mv) == Len(mv.offsets) - 1

\* Row k (counted from 1) of a compressed container.
Bucket(mv, k) == SubSeq(mv.values, mv.offsets[k] + 1, mv.offsets[k + 1])

\* clear() followed by append_bucket(x) for every x of a vector of vectors.
RECURSIVE AppendAll(_, _)
AppendAll(mv, v) ==
  IF v = <<>> THEN mv ELSE AppendAll(AppendBucket(mv, Head(v)), Tail(v))

Compress(v) == AppendAll(EmptyMultivector, v)

\* Graph::edges(): the unique pairs (a, b), a < b, of the adjacency lists, node by
\* node, each list in its own order.
EdgesOf(g) ==
  Flatten([a \in 1..NumBucketsOf(g) |->
             LET row == Bucket(g, a)
                 up == SelectSeq(row, LAMBDA b : a < b)
             IN [i \in 1..Len(up) |-> <<a, up[i]>>]])

\* Multivector::assign_pairs_par_wide(count, pairs): `count` buckets, every pair
\* (key, value) with key < count appended to bucket `key`.
AssignPairs(count, pairs) ==
  Compress([k \in 1..count |->
              LET mine == SelectSeq(pairs, LAMBDA kv : kv[1] = k - 1)
              IN [i \in 1..Len(mine) |-> mine[i][2]]])

\* -------------------------------------------------- particle array, PartVec

\* ParticleArray::fixed(): the fixed particles, in index order.
FixedParticles == SortIds(CHOOSE s \in Listings({a \in ParticleIds : type[a] = "fixed"}) : TRUE)

\* PartVec(part): every level holds `part`.
PartVecOf(part) == [l \in 1..MaxNumLevels |-> part]

\* PartVec::common(a, b): the length of the common prefix of two PartVecs.
PartVecCommon(pa, pb) ==
  LET differ == {l \in 1..MaxNumLevels : pa[l] # pb[l]}
  IN IF differ = {} THEN MaxNumLevels
     ELSE (CHOOSE l \in differ : \A m \in differ : l <= m) - 1

\* ------------------------------------------------------------ spatial search

\* geom::GridSearch index: search(point, radius, out) appends every point within
\* `radius` of `point` exactly once, in an order of its own.
SearchResults(point, radius) ==
  Listings({b \in ParticleIds : Abs(r[b] - point) <= radius})

\* Domain.clamp(point).
DomainClamp(x) == IF x < DomainLo THEN DomainLo ELSE IF x > DomainHi THEN DomainHi ELSE x

\* ------------------------------------------------ ParticleMesh::search_ tasks

\* A neighbor search that uses the radius of the interpolation search.
C4_TripleRadius(a) == InterpRadiusFactor * radius_func[a]

\* The point and the radius of the neighbor search of particle a.
SearchPoint(a) == r[a]
SearchRadius(a) == radius_func[a]

\* A neighbor search task that stores the hits as the index reported them.
C5_StoreUnsorted(hits) == hits

\* What the neighbor search task stores for its particle, given the hits of the
\* search index: the sorted hits.
StoreNeighbors(hits) == SortIds(hits)

\* An interpolation search around the fixed particle itself.
C6_NoMirror(a) == r[a]

\* The mirror point and the radius of the interpolation search of fixed particle a.
InterpPoint(a) == 2 * DomainClamp(r[a]) - r[a]
InterpRadius(a) == InterpRadiusFactor * radius_func[a]

\* What the interpolation search task stores: the hits without the fixed
\* particles, sorted.
StoreInterp(hits) == SortIds(SelectSeq(hits, LAMBDA b : type[b] # "fixed"))

\* par::for_each returns when every task ran; the statements after it run then.
ForEachReturned(pend) == pend = {}

\* ------------------------------------------------- ParticleMesh accessors

\* operator[]: the adjacent particles of a.
neighbors(a) == Bucket(adjacency_, a)

\* fixed_interp(a): the interpolation particles of the fixed particle a.
fixed_interp(a) == Bucket(interp_adjacency_, a - FixedParticles[1] + 1)

\* block_pairs(): the buckets of block_edges_, bucket k at index k + 1.
block_pairs == [k \in 1..NumBucketsOf(block_edges_) |-> Bucket(block_edges_, k)]

\* --------------------------------------------------- ParticleMesh::partition_

NumParts == NumLevels * NumThreads + 1
SentinelPart == NumParts - 1

\* Block edges assigned with one bucket per level.
C2_BucketPerLevel == NumLevels

\* The number of buckets block_edges_ is assigned with.
NumBlockBuckets == NumParts + 1

\* geom partition function (recursive inertial bisection) of the particles `ids`
\* into K parts init_part .. init_part + K - 1: every particle is labelled, parts
\* are contiguous along the line, and none is empty when K <= |ids|.
GeomPartitions(ids, K, init_part) ==
  {lab \in [ids -> init_part..(init_part + K - 1)] :
     /\ K <= Cardinality(ids) =>
          \A p \in init_part..(init_part + K - 1) : \E a \in ids : lab[a] = p
     /\ \/ \A a, b \in ids : r[a] < r[b] => lab[a] <= lab[b]
        \/ \A a, b \in ids : r[a] < r[b] => lab[a] >= lab[b]}

\* Writing the labels of one level into the PartVecs of the partitioned particles.
WriteLevel(parts, lvl, lab) ==
  [a \in ParticleIds |->
     IF a \in DOMAIN lab THEN [parts[a] EXCEPT ![lvl + 1] = lab[a]] ELSE parts[a]]

\* is_interface(a): some adjacent particle has another part at this level.
IsInterface(parts, lvl, a) ==
  \E i \in 1..Len(neighbors(a)) : parts[neighbors(a)[i]][lvl + 1] # parts[a][lvl + 1]

\* An interface of all the particles.
C19_AllParticles(parts, lvl) == ParticleIds

\* par::copy_if(all_particles, interface.begin(), is_interface) and the erase of
\* the tail: the interface particles. The vector is read through permuted_view by
\* the partition function only, which labels by position: the order copy_if
\* leaves is not kept, the vector is held as the set of its elements.
CopyInterface(parts, lvl) == {a \in ParticleIds : IsInterface(parts, lvl, a)}

\* An edge key computed from the first end alone.
C3_KeyOfFirstEnd(parts, ab) == PartVecCommon(parts[ab[1]], parts[ab[1]])

\* The key of the edge (a, b): the common part of its ends.
EdgeKey(parts, ab) == PartVecCommon(parts[ab[1]], parts[ab[2]])

\* adjacency_.transform_edges(...): the pairs (key, edge).
KeyedEdges(parts) ==
  LET es == EdgesOf(adjacency_)
  IN [i \in 1..Len(es) |-> <<EdgeKey(parts, es[i]), es[i]>>]

\* The block edges assembled from the PartVecs `parts`.
AssembleBlockEdges(parts) == AssignPairs(NumBlockBuckets, KeyedEdges(parts))

\* ==================================================================== graphs
\* tit::graph::WeightedGraph: node weights w and, per node, the set e of its
\* <<neighbor, edge weight>> entries.

NPOS == 0

EmptyGraph == [w |-> <<>>, e |-> <<>>]

NodesOf(g) == 1..Len(g.w)

\* wedges(): the unique edges <<a, b, w_ab>> with a < b.
Wedges(g) ==
  UNION {{<<a, x[1], x[2]>> : x \in {y \in g.e[a] : a < y[1]}} : a \in NodesOf(g)}

\* The sum of the last entries of a set of tuples (the set and the entry taken
\* from it are bound once per step).
RECURSIVE SumLast(_)
SumLast(S) ==
  CHOOSE sum \in {IF T = {} THEN 0
                  ELSE CHOOSE v \in {x[Len(x)] + SumLast(T \ {x}) :
                                       x \in {CHOOSE y \in T : TRUE}} : TRUE :
                  T \in {S}} : TRUE

MinOf(x, y) == IF x < y THEN x ELSE y

\* The fine graphs of the runs: every symmetric choice of the edge weights (0: no
\* edge) and every choice of the node weights.
NodePairs == {ab \in (1..NumNodes) \X (1..NumNodes) : ab[1] < ab[2]}

MakeGraph(nw, ew) ==
  [w |-> nw,
   e |-> [a \in 1..NumNodes |->
            {<<b, ew[IF a < b THEN <<a, b>> ELSE <<b, a>>]>> :
               b \in {c \in 1..NumNodes : c # a /\ ew[IF a < c THEN <<a, c>> ELSE <<c, a>>] > 0}}]]

InputGraphs ==
  {MakeGraph(nw, ew) : nw \in [1..NumNodes -> 1..MaxNodeWeight],
                       ew \in [NodePairs -> 0..MaxEdgeWeight]}

\* The large fine graphs of the runs: DeepNodes nodes of weight one, of which
\* the first m + 1 lie on a path whose edges have weights that all differ, the
\* odd edges heavier than the even ones.
DeepEdgeWeight(a) == IF a % 2 = 1 THEN DeepNodes + (a + 1) \div 2 ELSE a \div 2

DeepGraphOf(m) ==
  [w |-> [a \in 1..DeepNodes |-> 1],
   e |-> [a \in 1..DeepNodes |->
            (IF 1 < a /\ a - 1 <= m THEN {<<a - 1, DeepEdgeWeight(a - 1)>>} ELSE {})
              \cup (IF a <= m THEN {<<a + 1, DeepEdgeWeight(a)>>} ELSE {})]]

\* A path of few edges (the coarsening stalls at once), of some more (it stalls
\* at the second level) and the whole path (the second level is small enough).
DeepEdgeCounts == {5, 13, DeepNodes - 1}

DeepGraphs == {DeepGraphOf(m) : m \in DeepEdgeCounts}

\* The numbers of parts a graph is partitioned into in the runs.
PartsFor(g) == IF Len(g.w) > NumNodes THEN 1..DeepParts ELSE 1..NumNodes

\* --------------------------------------------------- impl::build_coarse_graph

\* equality_ranges(range, func, pred, proj): the maximal runs of consecutive
\* elements with equal projections, in order (the rest of the range is bound once
\* per run).
RECURSIVE EqualityRanges(_, _)
EqualityRanges(s, proj) ==
  CHOOSE runs \in {
    IF t = <<>> THEN <<>>
    ELSE LET differ == {i \in 1..Len(t) : proj[t[i]] # proj[t[1]]}
             stop == IF differ = {} THEN Len(t) + 1
                     ELSE CHOOSE i \in differ : \A j \in differ : i <= j
         IN <<SubSeq(t, 1, stop - 1)>> \o EqualityRanges(SubSeq(t, stop, Len(t)), proj) :
    t \in {s}} : TRUE

\* A coarse node with the weight of the first fine node of its run.
C23_FirstWeight(g, run) == g.w[run[1]]

\* The coarse node appended for one run of fine nodes: the sum of their weights,
\* and per coarse neighbor the sum of the weights of the fine edges to it.
CoarseWeight(g, run) == SumLast({<<i, g.w[run[i]]>> : i \in 1..Len(run)})

CoarseNeighbors(g, f2c, run) ==
  LET entries == UNION {{<<i, x[1], x[2]>> : x \in g.e[run[i]]} : i \in 1..Len(run)}
      keys == {f2c[x[2]] : x \in entries}
  IN {<<c, SumLast({x \in entries : f2c[x[2]] = c})>> : c \in keys}

build_coarse_graph(g, c2f, f2c) ==
  LET runs == EqualityRanges(c2f, f2c)
  IN [w |-> [c \in 1..Len(runs) |-> CoarseWeight(g, runs[c])],
      e |-> [c \in 1..Len(runs) |-> CoarseNeighbors(g, f2c, runs[c])]]

\* ------------------------------------------------------------- CoarsenHEM

\* The nodes the sorted traversal may visit next: the lightest of the nodes not
\* visited yet (nodes of equal weight are ordered by their hashes).
HemNextNodes(g, rest) == {a \in rest : \A b \in rest : g.w[a] <= g.w[b]}

\* The neighbors the search for the best neighbor may end with: the unmatched
\* neighbors with the heaviest edge, among them those with the least node weight
\* (equal ones are taken at random).
HemBestNeighbors(g, f2c, a) ==
  LET cand == {x \in g.e[a] : f2c[x[1]] = NPOS}
      better(x, y) == x[2] > y[2] \/ (x[2] = y[2] /\ g.w[x[1]] < g.w[y[1]])
  IN {x[1] : x \in {y \in cand : \A z \in cand : ~better(z, y)}}

\* The indices the search for the best neighbor of a reads a node weight at:
\* for every unmatched neighbor both arguments of less_or are evaluated before
\* the call, fine_graph.weight(fine_neighbor) and fine_graph.weight(best_neighbor),
\* and best_neighbor is NPOS until the first unmatched neighbor has been taken.
HemWeightReads(g, f2c, a) ==
  LET cand == {x[1] : x \in {y \in g.e[a] : f2c[y[1]] = NPOS}}
  IN IF cand = {} THEN {} ELSE cand \cup {NPOS}

\* The body of the loop for an unmatched node a and the neighbor found for it
\* (NPOS: none): a is mapped to a new coarse node and the counter is advanced,
\* then the neighbor is mapped to the coarse node the counter names.
HemMatch(f2c, c2f, cn, a, best) ==
  LET f1 == [f2c EXCEPT ![a] = cn]
      c1 == Append(c2f, a)
      cn1 == cn + 1
  IN IF best = NPOS
       THEN [f2c |-> f1, c2f |-> c1, cn |-> cn1]
       ELSE [f2c |-> [f1 EXCEPT ![best] = cn1], c2f |-> Append(c1, best), cn |-> cn1]

\* ------------------------------------------------------------- CoarsenGEM

\* The sort key of an edge: its weight, then the lesser weight of its ends.
GemKeyGreater(g, e, f) ==
  \/ e[3] > f[3]
  \/ e[3] = f[3] /\ MinOf(g.w[e[1]], g.w[e[2]]) > MinOf(g.w[f[1]], g.w[f[2]])

\* A traversal from the lightest key to the heaviest.
C10_LightestFirst(g, rest) == {e \in rest : \A f \in rest : ~GemKeyGreater(g, e, f)}

\* The edges the sorted traversal (std::greater) may visit next: those with the
\* greatest key of the edges not visited yet (equal keys are ordered by hashes).
GemNextEdges(g, rest) == {e \in rest : \A f \in rest : ~GemKeyGreater(g, f, e)}

\* A merge that leaves the second end of the edge unmatched.
C9_MergeForgetsNeighbor(f2c, c2f, cn, a, b) ==
  [f2c |-> [f2c EXCEPT ![a] = cn],
   c2f |-> c2f \o <<a, b>>,
   cn |-> cn + 1]

\* The body of the first loop for an edge whose ends are both unmatched.
GemMerge(f2c, c2f, cn, a, b) ==
  [f2c |-> [f2c EXCEPT ![a] = cn, ![b] = cn],
   c2f |-> c2f \o <<a, b>>,
   cn |-> cn + 1]

\* A second loop that puts all the unmatched nodes into one coarse node.
RECURSIVE C24_LeftoversTogether(_, _)
C24_LeftoversTogether(st, a) ==
  IF a > Len(st.f2c) THEN st
  ELSE IF st.f2c[a] # NPOS THEN C24_LeftoversTogether(st, a + 1)
  ELSE C24_LeftoversTogether([f2c |-> [st.f2c EXCEPT ![a] = st.cn],
                              c2f |-> Append(st.c2f, a),
                              cn |-> st.cn], a + 1)

\* The second loop: the unmatched nodes, in index order, become coarse nodes
\* (the mappings are bound once per node).
RECURSIVE GemSingletons(_, _)
GemSingletons(st, a) ==
  CHOOSE last \in {IF a > Len(s.f2c) THEN s
                   ELSE IF s.f2c[a] # NPOS THEN GemSingletons(s, a + 1)
                   ELSE GemSingletons([f2c |-> [s.f2c EXCEPT ![a] = s.cn],
                                       c2f |-> Append(s.c2f, a),
                                       cn |-> s.cn + 1], a + 1) :
                   s \in {st}} : TRUE

\* ------------------------------------------------------- GreedyPartition

\* The weight of part k and the weight of the cut edges of a partitioning.
PartWeight(g, p, k) == SumLast({<<i, g.w[i]>> : i \in {j \in NodesOf(g) : p[j] = k}})

EdgeCut(g, p) == SumLast({e \in Wedges(g) : p[e[1]] # p[e[2]]})

TotalWeight(g) == SumLast({<<i, g.w[i]>> : i \in NodesOf(g)})

\* The target weight of a part, W* = ceil(sum of the node weights / K).
TargetWeight(g, K) == (TotalWeight(g) + K - 1) \div K

\* The partitionings the greedy growing may end with: the parts are grown one
\* after another, part k until its weight reaches W* or no node is left; when
\* all K parts are grown the nodes left over join a part of their neighbors.
\* The seeds, the order of growth and the ties are left open.
GreedyPartitions(g, K) ==
  {p \in [NodesOf(g) -> 0..(K - 1)] :
     LET used == {p[i] : i \in NodesOf(g)}
         last == CHOOSE k \in used : \A l \in used : l <= k
     IN /\ used = 0..last
        /\ \A k \in 0..(last - 1) : PartWeight(g, p, k) >= TargetWeight(g, K)
        /\ last < K - 1 =>
             \A k \in 0..(last - 1) : \E i \in NodesOf(g) :
               p[i] = k /\ PartWeight(g, p, k) - g.w[i] < TargetWeight(g, K)}

\* --------------------------------------------------------- RefinePartsFM

\* Every part is within the tolerance of the target weight.
Balanced(g, p, K) ==
  \A k \in 0..(K - 1) :
    Abs(PartWeight(g, p, k) - TargetWeight(g, K)) * 100 <= RefineTolerance * TargetWeight(g, K)

\* The partitionings the refinement may end with: the one it started with, or,
\* when some pass had a positive cumulative gain, one with a lesser cut reached by
\* moves that keep the balance.
RefinePartsFM(g, p, K) ==
  {p} \cup {q \in [NodesOf(g) -> 0..(K - 1)] : Balanced(g, q, K) /\ EdgeCut(g, q) < EdgeCut(g, p)}

\* ---------------------------------------------------- MultilevelPartition

\* A stop test that looks at the size of the coarse graph only.
C25_StopOnSmallOnly(fine, coarse, K) == Len(coarse.w) <= StopFactor * K

\* Should we stop coarsening?
StopCoarsening(fine, coarse, K) ==
  \/ Len(coarse.w) <= StopFactor * K
  \/ Len(coarse.w) * StallDen >= Len(fine.w) * StallNum

\* The coarse parts copied into the fine parts node by node.
C27_CopyInOrder(coarse_parts, f2c) ==
  [i \in 1..Len(f2c) |-> coarse_parts[IF i <= Len(coarse_parts) THEN i ELSE 1]]

\* permuted_view(coarse_parts, fine_to_coarse) copied into the fine parts.
Project(coarse_parts, f2c) == [i \in 1..Len(f2c) |-> coarse_parts[f2c[i]]]

\* ------------------------------------------------------------ tit::par calls

\* UnstableCopyIf::BufferCap.
BufferCap == 64


\* The state of a call of a parallel primitive:
\*   algo     the primitive called ("none": no call)
\*   throwing whether the function the caller passed throws (on MaxValue)
\*   input    the range
\*   init     the initial value of a fold
\*   tasks    the subranges <<first, last>> the tasks work on, in range order
\*   width    the number of tasks of one parallel loop
\*   region   the parallel loop that is running, counted from 0
\*   tstate   per task "ready", "running", "reserve", "move", "done" or "threw"
\*   tpos     per task the index of the element it takes next
\*   buf, off per task the buffer and the output offset of unstable_copy_if
\*   acc      per task the value of its fold
\*   marks    per element the thread indices of the calls of the function for it
\*   out      the output range (NoValue: not written)
\*   writes   per output slot the number of writes
\*   index    the shared cursor of unstable_copy_if
\*   thrown   the elements whose call threw
\*   captured the element whose error was captured (0: none)
\*   ret      "none", "returned" or "raised"
\*   value    what was returned, or the element whose error was raised
NoValue == -1

ParOff ==
  [algo |-> "none", throwing |-> FALSE, input |-> <<>>, init |-> 0, tasks |-> <<>>,
   width |-> 0, region |-> 0, tstate |-> <<>>, tpos |-> <<>>, buf |-> <<>>,
   off |-> <<>>, acc |-> <<>>, marks |-> <<>>, out |-> <<>>, writes |-> <<>>,
   index |-> 0, thrown |-> {}, captured |-> 0, ret |-> "none", value |-> 0]

\* The state of a call of UniformPartition: the numbers of nodes and parts, the
\* parts range of the caller (NoValue: not written), the part of the loop and
\* where the call is ("off", "idle", "loop", "done").
UniformOff == [num_nodes |-> 0, num_parts |-> 0, parts |-> <<>>, part |-> 0, pc |-> "off"]

\* The other mesh of a run that updates two meshes of one type on two threads:
\* where its update() is, the positions of its particle array, its adjacency_
\* and interp_adjacency_ and the parts of its first level. No other mesh: "off".
DuoOff ==
  [pc |-> "off", r |-> <<>>, adjacency_ |-> EmptyMultivector,
   interp_adjacency_ |-> EmptyMultivector, parts |-> <<>>]

\* -------------------------------------------------------------- initial state

\* The fixed particles of a particle array are stored one after another.
TypeArrays ==
  {t \in [ParticleIds -> {"fluid", "fixed"}] :
     \A a, b, c \in ParticleIds :
       (a < b /\ b < c /\ t[a] = "fixed" /\ t[c] = "fixed") => t[b] = "fixed"}

\* The search radii of the particles (the smoothing lengths).
RadiusFuncs == [ParticleIds -> Radii]

\* The state after the construction of the mesh.
Constructed ==
  /\ parinfo = [a \in ParticleIds |-> PartVecOf(0)]
  /\ adjacency = <<>> /\ interp_adjacency = <<>> /\ interface = {}
  /\ adjacency_ = EmptyMultivector
  /\ interp_adjacency_ = EmptyMultivector
  /\ block_edges_ = EmptyMultivector
  /\ pc = "idle" /\ level = 0 /\ pending = {}
  /\ result = "none"
  /\ chunk = 0 /\ started = <<>> /\ running = {}

\* No graph call is running.
GraphIdle ==
  /\ mode = "none"
  /\ num_parts = 0
  /\ fine_graph = EmptyGraph /\ unvisited = {}
  /\ coarse_graph = EmptyGraph
  /\ coarse_to_fine = <<>> /\ fine_to_coarse = <<>> /\ coarse_node = 1
  /\ bad_reads = {}
  /\ levels = <<>> /\ fine_parts = <<>>

\* The run makes no graph call.
GraphOff == graph = EmptyGraph /\ gpc = "off" /\ GraphIdle

\* One update() of the mesh of any particle array.
Init ==
  /\ r \in [ParticleIds -> Positions]
  /\ type \in TypeArrays
  /\ radius_func \in RadiusFuncs
  /\ calls = 1
  /\ Constructed
  /\ GraphOff
  /\ par = ParOff /\ uni = UniformOff /\ duo = DuoOff

\* MaxUpdates update() calls, one per time step, of the mesh of a particle array
\* whose first particle is fixed and whose particles have the same radius.
InitSteps ==
  /\ r \in [ParticleIds -> Positions]
  /\ type = [a \in ParticleIds |-> IF a = 1 THEN "fixed" ELSE "fluid"]
  /\ \E h \in Radii : radius_func = [a \in ParticleIds |-> h]
  /\ calls = MaxUpdates
  /\ Constructed
  /\ GraphOff
  /\ par = ParOff /\ uni = UniformOff /\ duo = DuoOff

\* ------------------------------------------------------ ParticleMesh::update

\* update(particles, radius_func) is called: search_ builds the index, resizes its
\* scratch vector and launches the neighbor search tasks.
UpdateBegin ==
  /\ pc = "idle" /\ calls > 0
  /\ adjacency' = Resize(adjacency, NumParticles)
  /\ pending' = ParticleIds
  /\ pc' = "search" /\ result' = "running" /\ calls' = calls - 1
  /\ chunk' = 0 /\ started' = <<>> /\ running' = {}
  /\ UNCHANGED <<r, type, parinfo, radius_func, interp_adjacency, interface, adjacency_,
                 interp_adjacency_, block_edges_, level>>
  /\ UNCHANGED <<graphVars, par, uni, duo>>

\* One task of the neighbor search: the sorted hits of the index are stored into
\* the scratch list of a.
SearchTask(a, hits) ==
  /\ pc = "search" /\ a \in pending
  /\ pending' = pending \ {a}
  /\ hits \in SearchResults(SearchPoint(a), SearchRadius(a))
  /\ adjacency' = [adjacency EXCEPT ![a] = StoreNeighbors(hits)]
  /\ UNCHANGED <<r, type, parinfo, radius_func, interp_adjacency, interface,
                 adjacency_, interp_adjacency_, block_edges_, pc, level, result,
                 calls>>
  /\ UNCHANGED travVars
  /\ UNCHANGED <<graphVars, par, uni, duo>>

\* One task of a search throws (its radius_func(a), or an allocation): the tasks
\* that did not start are cancelled, par::for_each rethrows, and the exception
\* leaves search_ and update().
TaskThrows(a) ==
  /\ pc \in {"search", "interp"} /\ a \in pending
  /\ result' = IF pc = "search" THEN "search failed" ELSE "interp failed"
  /\ pc' = "idle" /\ pending' = {}
  /\ UNCHANGED <<r, type, parinfo, radius_func, adjacency, interp_adjacency,
                 interface, adjacency_, interp_adjacency_, block_edges_, level,
                 calls>>
  /\ UNCHANGED travVars
  /\ UNCHANGED <<graphVars, par, uni, duo>>

\* The neighbor search returned: adjacency_ is compressed from the scratch lists
\* and the interpolation search tasks of the fixed particles are launched.
SearchDone ==
  /\ pc = "search" /\ ForEachReturned(pending)
  /\ adjacency_' = Compress(adjacency)
  /\ interp_adjacency' = Resize(interp_adjacency, Len(FixedParticles))
  /\ pending' = Range(FixedParticles)
  /\ pc' = "interp"
  /\ UNCHANGED <<r, type, parinfo, radius_func, adjacency, interface,
                 interp_adjacency_, block_edges_, level, result, calls>>
  /\ UNCHANGED travVars
  /\ UNCHANGED <<graphVars, par, uni, duo>>

\* One task of the interpolation search, of the i-th fixed particle a.
InterpTask(a, hits) ==
  /\ pc = "interp" /\ a \in pending
  /\ pending' = pending \ {a}
  /\ hits \in SearchResults(InterpPoint(a), InterpRadius(a))
  /\ LET i == CHOOSE i \in 1..Len(FixedParticles) : FixedParticles[i] = a
     IN interp_adjacency' = [interp_adjacency EXCEPT ![i] = StoreInterp(hits)]
  /\ UNCHANGED <<r, type, parinfo, radius_func, adjacency, interface,
                 adjacency_, interp_adjacency_, block_edges_, pc, level, result,
                 calls>>
  /\ UNCHANGED travVars
  /\ UNCHANGED <<graphVars, par, uni, duo>>

\* The interpolation search returned: interp_adjacency_ is compressed, search_
\* returns and partition_ fills the PartVecs with the last part.
InterpDone ==
  /\ pc = "interp" /\ ForEachReturned(pending)
  /\ interp_adjacency_' = Compress(interp_adjacency)
  /\ parinfo' = [a \in ParticleIds |-> PartVecOf(SentinelPart)]
  /\ pc' = "partition" /\ level' = 0
  /\ UNCHANGED <<r, type, radius_func, adjacency, interp_adjacency, interface,
                 adjacency_, block_edges_, pending, result, calls>>
  /\ UNCHANGED travVars
  /\ UNCHANGED <<graphVars, par, uni, duo>>

\* ---------------------------------------------------- ParticleMesh::partition_

\* The particles and the first part of the partition of a level: all the particles
\* at the first level, the interface particles at the others.
LevelParticles == IF level = 0 THEN ParticleIds ELSE interface

\* A first part that counts the levels, not the parts of the levels before.
C18_OffsetByLevel == level

\* init_part of the partition of a level.
LevelInitPart == level * NumThreads

\* The first level: partition_func_ labels all the particles with num_threads
\* parts, then the interface particles are copied into the scratch vector.
PartitionFirst(lab) ==
  /\ pc = "partition" /\ level = 0 /\ level < NumLevels - 1
  /\ NumThreads <= Cardinality(LevelParticles)
  /\ lab \in GeomPartitions(LevelParticles, NumThreads, LevelInitPart)
  /\ parinfo' = WriteLevel(parinfo, level, lab)
  /\ interface' = CopyInterface(parinfo', level)
  /\ level' = level + 1
  /\ UNCHANGED <<r, type, radius_func, adjacency, interp_adjacency,
                 adjacency_, interp_adjacency_, block_edges_, pc, pending,
                 result, calls>>
  /\ UNCHANGED travVars
  /\ UNCHANGED <<graphVars, par, uni, duo>>

\* The last level: secondary_partition_func_ labels the interface particles, the
\* loop is left and the block edges are assembled; partition_ and update() return.
PartitionLast(lab) ==
  /\ pc = "partition" /\ level > 0 /\ level = NumLevels - 1
  /\ lab \in GeomPartitions(LevelParticles, NumThreads, LevelInitPart)
  /\ parinfo' = WriteLevel(parinfo, level, lab)
  /\ block_edges_' = AssembleBlockEdges(parinfo')
  /\ pc' = "idle" /\ result' = "ok"
  /\ UNCHANGED <<r, type, radius_func, adjacency, interp_adjacency, interface,
                 adjacency_, interp_adjacency_, level, pending, calls>>
  /\ UNCHANGED travVars
  /\ UNCHANGED <<graphVars, par, uni, duo>>

\* A partition function asked for more parts than it has particles may refuse.
PartitionReject ==
  /\ pc = "partition"
  /\ NumThreads > Cardinality(LevelParticles)
  /\ pc' = "idle" /\ result' = "rejected"
  /\ UNCHANGED <<r, type, parinfo, radius_func, adjacency, interp_adjacency,
                 interface, adjacency_, interp_adjacency_, block_edges_, level, pending, calls>>
  /\ UNCHANGED travVars
  /\ UNCHANGED <<graphVars, par, uni, duo>>

\* ------------------------------- par::block_for_each(mesh.block_pairs(), func)

\* std::views::chunk(range, num_threads()): chunk c (counted from 0) holds the
\* buckets c * num_threads + 1 .. (c + 1) * num_threads of block_pairs.
NumChunks == (Len(block_pairs) + NumThreads - 1) \div NumThreads
ChunkBuckets(c) == {k \in 1..Len(block_pairs) : (k - 1) \div NumThreads = c}

\* The inner std::ranges::for_each of a bucket calls func for its next pair when
\* the call for the pair before returned.
CanStart(k) ==
  /\ started[k] < Len(block_pairs[k])
  /\ \A x \in running : x[1] # k

\* The pair an invocation works on.
PairOf(x) == block_pairs[x[1]][x[2]]

\* block_for_each is called on the block pairs of a successful update.
TraverseBegin ==
  /\ pc = "idle" /\ result = "ok" /\ chunk = 0 /\ started = <<>>
  /\ pc' = "traverse"
  /\ started' = [k \in 1..Len(block_pairs) |-> 0]
  /\ running' = {}
  /\ UNCHANGED chunk
  /\ UNCHANGED <<r, type, parinfo, radius_func, adjacency, interp_adjacency,
                 interface, adjacency_, interp_adjacency_, block_edges_, level, pending, result, calls>>
  /\ UNCHANGED <<graphVars, par, uni, duo>>

\* A worker of par::for_each over the buckets of the chunk calls func for the next
\* pair of its bucket.
InvokeStart(k) ==
  /\ pc = "traverse" /\ k \in ChunkBuckets(chunk)
  /\ CanStart(k)
  /\ started' = [started EXCEPT ![k] = @ + 1]
  /\ running' = running \cup {<<k, started[k] + 1>>}
  /\ UNCHANGED chunk
  /\ UNCHANGED meshVars
  /\ UNCHANGED <<graphVars, par, uni, duo>>

\* A call of func returns.
InvokeEnd(x) ==
  /\ pc = "traverse" /\ x \in running
  /\ running' = running \ {x}
  /\ UNCHANGED <<chunk, started>>
  /\ UNCHANGED meshVars
  /\ UNCHANGED <<graphVars, par, uni, duo>>

\* par::for_each over the buckets of the chunk returned: the next chunk is taken,
\* or block_for_each returns.
ChunkDone ==
  /\ pc = "traverse" /\ running = {}
  /\ \A k \in ChunkBuckets(chunk) : started[k] = Len(block_pairs[k])
  /\ chunk' = chunk + 1
  /\ pc' = IF chunk + 1 >= NumChunks THEN "idle" ELSE "traverse"
  /\ UNCHANGED <<started, running>>
  /\ UNCHANGED <<r, type, parinfo, radius_func, adjacency, interp_adjacency,
                 interface, adjacency_, interp_adjacency_, block_edges_, level, pending, result, calls>>
  /\ UNCHANGED <<graphVars, par, uni, duo>>

\* ------------------------------------------------------------ specification

Next ==
  \/ UpdateBegin
  \/ /\ pc = "search"
     /\ \E a \in pending : \E hits \in SearchResults(SearchPoint(a), SearchRadius(a)) :
          SearchTask(a, hits)
  \/ \E a \in pending : TaskThrows(a)
  \/ SearchDone
  \/ /\ pc = "interp"
     /\ \E a \in pending : \E hits \in SearchResults(InterpPoint(a), InterpRadius(a)) :
          InterpTask(a, hits)
  \/ InterpDone
  \/ /\ pc = "partition" /\ level = 0
     /\ \E lab \in GeomPartitions(LevelParticles, NumThreads, LevelInitPart) :
          PartitionFirst(lab)
  \/ /\ pc = "partition" /\ level > 0
     /\ \E lab \in GeomPartitions(LevelParticles, NumThreads, LevelInitPart) :
          PartitionLast(lab)
  \/ PartitionReject
  \/ TraverseBegin
  \/ \E k \in 1..NumBlockBuckets : InvokeStart(k)
  \/ \E x \in running : InvokeEnd(x)
  \/ ChunkDone

vars == <<r, type, parinfo, radius_func, adjacency, interp_adjacency,
          interface, adjacency_, interp_adjacency_, block_edges_, pc, level,
          pending, result, calls, chunk, started, running,
          graph, mode, gpc, num_parts, fine_graph, unvisited, coarse_graph,
          coarse_to_fine, fine_to_coarse, coarse_node, bad_reads, levels,
          fine_parts, par, uni, duo>>

Spec == Init /\ [][Next]_vars

SpecSteps == InitSteps /\ [][Next]_vars

\* ================================================= two meshes, two threads
\* The scratch vectors of search_ and partition_ are function-local statics: the
\* variables adjacency, interp_adjacency and interface are the same objects for
\* every mesh of the type. The other mesh is updated over a particle array of
\* its own, of the same size, types and radii; each of its parallel loops is one
\* step.

\* The sorted neighbor lists of the particles at the positions rr.
DuoNeighbors(rr) ==
  [a \in ParticleIds |->
     SortIds(CHOOSE s \in Listings({b \in ParticleIds :
                                      Abs(rr[b] - rr[a]) <= radius_func[a]}) : TRUE)]

\* The sorted interpolation lists of the fixed particles at the positions rr.
DuoInterpLists(rr) ==
  [i \in 1..Len(FixedParticles) |->
     LET a == FixedParticles[i]
         point == 2 * DomainClamp(rr[a]) - rr[a]
     IN SortIds(CHOOSE s \in Listings({b \in ParticleIds :
                                         /\ Abs(rr[b] - point) <= InterpRadiusFactor * radius_func[a]
                                         /\ type[b] # "fixed"}) : TRUE)]

\* The geom partition function on the positions rr (see GeomPartitions).
DuoGeomPartitions(rr, ids, K, init_part) ==
  {lab \in [ids -> init_part..(init_part + K - 1)] :
     /\ K <= Cardinality(ids) =>
          \A p \in init_part..(init_part + K - 1) : \E a \in ids : lab[a] = p
     /\ \/ \A a, b \in ids : rr[a] < rr[b] => lab[a] <= lab[b]
        \/ \A a, b \in ids : rr[a] < rr[b] => lab[a] >= lab[b]}

\* The positions of the two particle arrays: all the particles at one point, the
\* first one far from the others, the last one far from the others.
DuoArrays ==
  {[a \in ParticleIds |-> 3],
   [a \in ParticleIds |-> IF a = 1 THEN -5 ELSE 5],
   [a \in ParticleIds |-> IF a = NumParticles THEN -5 ELSE 3]}

\* Both threads are about to call update(), each on its mesh and particle array.
InitTwoMeshes ==
  /\ r \in DuoArrays
  /\ type = [a \in ParticleIds |-> IF a = 1 THEN "fixed" ELSE "fluid"]
  /\ \E h \in Radii : radius_func = [a \in ParticleIds |-> h]
  /\ calls = 1
  /\ Constructed
  /\ GraphOff
  /\ par = ParOff /\ uni = UniformOff
  /\ \E rr \in DuoArrays : duo = [DuoOff EXCEPT !.pc = "idle", !.r = rr]

\* search_ of the other mesh: the scratch vector is resized and the neighbor
\* search tasks store their sorted hits in it.
DuoSearch ==
  /\ duo.pc = "idle"
  /\ adjacency' = DuoNeighbors(duo.r)
  /\ duo' = [duo EXCEPT !.pc = "search"]
  /\ UNCHANGED <<r, type, parinfo, radius_func, interp_adjacency, interface, adjacency_,
                 interp_adjacency_, block_edges_, pc, level, pending, result, calls>>
  /\ UNCHANGED <<travVars, graphVars, par, uni>>

\* Its adjacency_ is compressed from the scratch vector.
DuoSearchDone ==
  /\ duo.pc = "search"
  /\ duo' = [duo EXCEPT !.pc = "interp", !.adjacency_ = Compress(adjacency)]
  /\ UNCHANGED <<meshVars, travVars, graphVars, par, uni>>

\* The interpolation search tasks of the other mesh store their hits in the
\* second scratch vector, resized before.
DuoInterp ==
  /\ duo.pc = "interp"
  /\ interp_adjacency' = DuoInterpLists(duo.r)
  /\ duo' = [duo EXCEPT !.pc = "compress"]
  /\ UNCHANGED <<r, type, parinfo, radius_func, adjacency, interface, adjacency_,
                 interp_adjacency_, block_edges_, pc, level, pending, result, calls>>
  /\ UNCHANGED <<travVars, graphVars, par, uni>>

\* Its interp_adjacency_ is compressed from the second scratch vector.
DuoInterpDone ==
  /\ duo.pc = "compress"
  /\ duo' = [duo EXCEPT !.pc = "partition", !.interp_adjacency_ = Compress(interp_adjacency)]
  /\ UNCHANGED <<meshVars, travVars, graphVars, par, uni>>

\* The first level of partition_ of the other mesh: its particles are labelled
\* and its interface particles are copied into the third scratch vector.
DuoPartitionFirst(lab) ==
  /\ duo.pc = "partition"
  /\ lab \in DuoGeomPartitions(duo.r, ParticleIds, NumThreads, 0)
  /\ interface' = {a \in ParticleIds :
                     \E b \in Range(Bucket(duo.adjacency_, a)) : lab[b] # lab[a]}
  /\ duo' = [duo EXCEPT !.pc = "secondary", !.parts = lab]
  /\ UNCHANGED <<r, type, parinfo, radius_func, adjacency, interp_adjacency, adjacency_,
                 interp_adjacency_, block_edges_, pc, level, pending, result, calls>>
  /\ UNCHANGED <<travVars, graphVars, par, uni>>

\* Its last level reads the third scratch vector and its block edges are
\* assembled: its update() returns.
DuoPartitionLast ==
  /\ duo.pc = "secondary"
  /\ duo' = [duo EXCEPT !.pc = "done"]
  /\ UNCHANGED <<meshVars, travVars, graphVars, par, uni>>

NextTwoMeshes ==
  \/ UpdateBegin
  \/ /\ pc = "search"
     /\ \E a \in pending : \E hits \in SearchResults(SearchPoint(a), SearchRadius(a)) :
          SearchTask(a, hits)
  \/ SearchDone
  \/ /\ pc = "interp"
     /\ \E a \in pending : \E hits \in SearchResults(InterpPoint(a), InterpRadius(a)) :
          InterpTask(a, hits)
  \/ InterpDone
  \/ /\ pc = "partition" /\ level = 0
     /\ \E lab \in GeomPartitions(LevelParticles, NumThreads, LevelInitPart) :
          PartitionFirst(lab)
  \/ /\ pc = "partition" /\ level > 0
     /\ \E lab \in GeomPartitions(LevelParticles, NumThreads, LevelInitPart) :
          PartitionLast(lab)
  \/ PartitionReject
  \/ DuoSearch
  \/ DuoSearchDone
  \/ DuoInterp
  \/ DuoInterpDone
  \/ /\ duo.pc = "partition"
     /\ \E lab \in DuoGeomPartitions(duo.r, ParticleIds, NumThreads, 0) : DuoPartitionFirst(lab)
  \/ DuoPartitionLast

SpecTwoMeshes == InitTwoMeshes /\ [][NextTwoMeshes]_vars

\* ======================================================= graph calls of a run

NoMeshCalls ==
  /\ r = [a \in ParticleIds |-> DomainLo]
  /\ type = [a \in ParticleIds |-> "fluid"]
  /\ radius_func = [a \in ParticleIds |-> 1]
  /\ calls = 0
  /\ Constructed

\* A run that coarsens one graph.
InitGraph ==
  /\ NoMeshCalls
  /\ par = ParOff /\ uni = UniformOff /\ duo = DuoOff
  /\ graph \in InputGraphs
  /\ gpc = "idle" /\ GraphIdle

\* A run that partitions one graph: a small one with edges of weight one, or a
\* large one.
PartitionGraphs == {g \in InputGraphs : \A e \in Wedges(g) : e[3] = 1} \cup DeepGraphs

InitPartition ==
  /\ NoMeshCalls
  /\ par = ParOff /\ uni = UniformOff /\ duo = DuoOff
  /\ graph \in PartitionGraphs
  /\ gpc = "idle" /\ GraphIdle

\* The start of a coarsening of the fine graph g: fine_to_coarse.assign(n, npos),
\* coarse_to_fine.clear(), coarse_node = 0 (the first coarse node).
StartCoarsening(g, rest) ==
  /\ fine_graph' = g
  /\ unvisited' = rest
  /\ fine_to_coarse' = [a \in NodesOf(g) |-> NPOS]
  /\ coarse_to_fine' = <<>>
  /\ coarse_node' = 1
  /\ bad_reads' = {}
  /\ coarse_graph' = EmptyGraph
  /\ gpc' = "visit"

\* CoarsenHEM is called: the nodes are sorted.
CallCoarsenHEM ==
  /\ gpc = "idle"
  /\ mode' = "hem"
  /\ StartCoarsening(graph, NodesOf(graph))
  /\ UNCHANGED <<graph, num_parts, levels, fine_parts>>
  /\ UNCHANGED <<meshVars, travVars, par, uni, duo>>

\* One iteration of the loop of CoarsenHEM over the sorted nodes.
HemVisit(a, best) ==
  /\ gpc = "visit" /\ mode = "hem"
  /\ a \in HemNextNodes(fine_graph, unvisited)
  /\ unvisited' = unvisited \ {a}
  /\ IF fine_to_coarse[a] # NPOS
       THEN UNCHANGED <<fine_to_coarse, coarse_to_fine, coarse_node, bad_reads>>
       ELSE /\ IF HemBestNeighbors(fine_graph, fine_to_coarse, a) = {}
                 THEN best = NPOS
                 ELSE best \in HemBestNeighbors(fine_graph, fine_to_coarse, a)
            /\ bad_reads' = bad_reads \cup
                 (HemWeightReads(fine_graph, fine_to_coarse, a) \ NodesOf(fine_graph))
            /\ LET st == HemMatch(fine_to_coarse, coarse_to_fine, coarse_node, a, best)
               IN /\ fine_to_coarse' = st.f2c
                  /\ coarse_to_fine' = st.c2f
                  /\ coarse_node' = st.cn
  /\ UNCHANGED <<graph, mode, gpc, num_parts, fine_graph, coarse_graph, levels,
                 fine_parts>>
  /\ UNCHANGED <<meshVars, travVars, par, uni, duo>>

\* The other outcome of a read of a node weight outside the nodes of the graph:
\* the read does not return (a failed bounds assertion or a fault) and the call
\* ends inside the iteration, after the node got its coarse node.
HemWeightTrap(a) ==
  /\ gpc = "visit" /\ mode = "hem"
  /\ a \in HemNextNodes(fine_graph, unvisited)
  /\ fine_to_coarse[a] = NPOS
  /\ HemWeightReads(fine_graph, fine_to_coarse, a) \ NodesOf(fine_graph) # {}
  /\ bad_reads' = bad_reads \cup
       (HemWeightReads(fine_graph, fine_to_coarse, a) \ NodesOf(fine_graph))
  /\ fine_to_coarse' = [fine_to_coarse EXCEPT ![a] = coarse_node]
  /\ coarse_to_fine' = Append(coarse_to_fine, a)
  /\ coarse_node' = coarse_node + 1
  /\ gpc' = "trapped"
  /\ UNCHANGED <<graph, mode, num_parts, fine_graph, unvisited, coarse_graph, levels,
                 fine_parts>>
  /\ UNCHANGED <<meshVars, travVars, par, uni, duo>>

\* The loop of CoarsenHEM is over: the coarse graph is built.
HemFinish ==
  /\ gpc = "visit" /\ mode = "hem" /\ unvisited = {}
  /\ coarse_graph' = build_coarse_graph(fine_graph, coarse_to_fine, fine_to_coarse)
  /\ gpc' = "coarsened"
  /\ UNCHANGED <<graph, mode, num_parts, fine_graph, unvisited, coarse_to_fine,
                 fine_to_coarse, coarse_node, bad_reads, levels, fine_parts>>
  /\ UNCHANGED <<meshVars, travVars, par, uni, duo>>

\* CoarsenGEM is called: the edges are sorted.
CallCoarsenGEM ==
  /\ gpc = "idle"
  /\ mode' = "gem"
  /\ StartCoarsening(graph, Wedges(graph))
  /\ UNCHANGED <<graph, num_parts, levels, fine_parts>>
  /\ UNCHANGED <<meshVars, travVars, par, uni, duo>>

\* One iteration of the first loop of CoarsenGEM, over the sorted edges.
GemVisit(e) ==
  /\ gpc = "visit" /\ mode \in {"gem", "multilevel"}
  /\ e \in GemNextEdges(fine_graph, unvisited)
  /\ unvisited' = unvisited \ {e}
  /\ IF fine_to_coarse[e[1]] # NPOS \/ fine_to_coarse[e[2]] # NPOS
       THEN UNCHANGED <<fine_to_coarse, coarse_to_fine, coarse_node>>
       ELSE LET st == GemMerge(fine_to_coarse, coarse_to_fine, coarse_node, e[1], e[2])
            IN /\ fine_to_coarse' = st.f2c
               /\ coarse_to_fine' = st.c2f
               /\ coarse_node' = st.cn
  /\ UNCHANGED <<graph, mode, gpc, num_parts, fine_graph, coarse_graph, bad_reads, levels,
                 fine_parts>>
  /\ UNCHANGED <<meshVars, travVars, par, uni, duo>>

\* The first loop of CoarsenGEM is over: the unmatched nodes become coarse nodes
\* and the coarse graph is built.
GemFinish ==
  /\ gpc = "visit" /\ mode \in {"gem", "multilevel"} /\ unvisited = {}
  /\ \E st \in {GemSingletons([f2c |-> fine_to_coarse, c2f |-> coarse_to_fine,
                                cn |-> coarse_node], 1)} :
        /\ fine_to_coarse' = st.f2c
        /\ coarse_to_fine' = st.c2f
        /\ coarse_node' = st.cn
        /\ coarse_graph' = build_coarse_graph(fine_graph, st.c2f, st.f2c)
  /\ gpc' = "coarsened"
  /\ UNCHANGED <<graph, mode, num_parts, fine_graph, unvisited, bad_reads, levels,
                 fine_parts>>
  /\ UNCHANGED <<meshVars, travVars, par, uni, duo>>

\* MultilevelPartition is called with num_parts = K, 0 < K <= number of nodes: the
\* first level is entered and its graph is coarsened.
CallMultilevel(K) ==
  /\ gpc = "idle"
  /\ K > 0 /\ K <= Len(graph.w)
  /\ mode' = "multilevel" /\ num_parts' = K
  /\ StartCoarsening(graph, Wedges(graph))
  /\ UNCHANGED <<graph, levels, fine_parts>>
  /\ UNCHANGED <<meshVars, travVars, par, uni, duo>>

\* A level has coarsened its graph: the coarse graph is partitioned directly, or
\* the next level is entered with it.
MlPartition(coarse_parts) ==
  /\ gpc = "coarsened" /\ mode = "multilevel"
  /\ levels' = Append(levels, [g |-> fine_graph, f2c |-> fine_to_coarse,
                               cg |-> coarse_graph])
  /\ IF StopCoarsening(fine_graph, coarse_graph, num_parts)
       THEN /\ coarse_parts \in GreedyPartitions(coarse_graph, num_parts)
            /\ fine_parts' = coarse_parts
            /\ gpc' = "project"
            /\ UNCHANGED <<fine_graph, unvisited, coarse_graph, coarse_to_fine,
                           fine_to_coarse, coarse_node, bad_reads>>
       ELSE /\ StartCoarsening(coarse_graph, Wedges(coarse_graph))
            /\ UNCHANGED fine_parts
  /\ UNCHANGED <<graph, mode, num_parts>>
  /\ UNCHANGED <<meshVars, travVars, par, uni, duo>>

\* A level is left: the parts of its coarse graph are projected to its fine graph
\* and refined.
MlProject(refined) ==
  /\ gpc = "project" /\ levels # <<>>
  /\ LET lvl == levels[Len(levels)]
     IN refined \in RefinePartsFM(lvl.g, Project(fine_parts, lvl.f2c), num_parts)
  /\ fine_parts' = refined
  /\ levels' = SubSeq(levels, 1, Len(levels) - 1)
  /\ gpc' = IF Len(levels) = 1 THEN "partitioned" ELSE "project"
  /\ UNCHANGED <<graph, mode, num_parts, fine_graph, unvisited, coarse_graph,
                 coarse_to_fine, fine_to_coarse, coarse_node, bad_reads>>
  /\ UNCHANGED <<meshVars, travVars, par, uni, duo>>

NextGraph ==
  \/ CallCoarsenHEM
  \/ /\ gpc = "visit" /\ mode = "hem"
     /\ \E a \in unvisited :
          \E best \in {NPOS} \cup HemBestNeighbors(fine_graph, fine_to_coarse, a) :
            HemVisit(a, best)
  \/ /\ gpc = "visit" /\ mode = "hem"
     /\ \E a \in unvisited : HemWeightTrap(a)
  \/ HemFinish
  \/ CallCoarsenGEM
  \/ /\ gpc = "visit" /\ mode = "gem"
     /\ \E e \in unvisited : GemVisit(e)
  \/ GemFinish

NextPartition ==
  \/ \E K \in PartsFor(graph) : CallMultilevel(K)
  \/ /\ gpc = "visit" /\ mode = "multilevel"
     /\ \E e \in unvisited : GemVisit(e)
  \/ GemFinish
  \/ /\ gpc = "coarsened" /\ mode = "multilevel"
     /\ \E coarse_parts \in [NodesOf(coarse_graph) -> 0..(num_parts - 1)] :
          MlPartition(coarse_parts)
  \/ /\ gpc = "project" /\ levels # <<>>
     /\ \E refined \in [NodesOf(levels[Len(levels)].g) -> 0..(num_parts - 1)] :
          MlProject(refined)

SpecGraph == InitGraph /\ [][NextGraph]_vars

SpecPartition == InitPartition /\ [][NextPartition]_vars

\* A run that partitions one graph and goes on until the call returns (the call
\* is one thread of control): a small graph of unit weights, or a large one.
InitTermination ==
  /\ NoMeshCalls
  /\ par = ParOff /\ uni = UniformOff /\ duo = DuoOff
  /\ graph \in {g \in PartitionGraphs : \A a \in NodesOf(g) : g.w[a] = 1}
  /\ gpc = "idle" /\ GraphIdle

SpecPartitionFair == InitTermination /\ [][NextPartition]_vars /\ WF_vars(NextPartition)

\* ===================================================== calls of tit::par

\* The functions the callers pass: the predicate of a copy-if, the function of a
\* transform, the body and the combination of a fold. A throwing function throws
\* for the element MaxValue.
Pred(x) == x % 2 = 0
TransformFunc(x) == 2 * x + 1
FoldFunc(partial, x) == partial + x
ResultFunc(x, y) == x + y
Throws(p, x) == p.throwing /\ x = MaxValue

\* partitioner.blockify(range): the range of n elements is cut into non-empty
\* contiguous blocks, one per task; the cuts are the partitioner's choice.
BlocksOf(n, cuts) ==
  LET ends == cuts \cup {n}
      EndAt(k) == CHOOSE e \in ends : Cardinality({x \in ends : x <= e}) = k
  IN [k \in 1..Cardinality(ends) |-> <<IF k = 1 THEN 1 ELSE EndAt(k - 1) + 1, EndAt(k)>>]

Blockify(n) == IF n = 0 THEN {<<>>} ELSE {BlocksOf(n, cuts) : cuts \in SUBSET (1..(n - 1))}

\* A mapping of the thread indices to the subranges that leaves out the remainder.
C12_EqualChunks(n) ==
  LET quotient == n \div NumThreads
  IN [t \in 1..NumThreads |-> <<(t - 1) * quotient + 1, t * quotient>>]

\* DeterministicForEachRange: the subrange [first, last) of thread_index = t - 1.
DeterministicTasks(n) ==
  LET count == NumThreads
      quotient == n \div count
      remainder == n % count
      first(thread_index) == thread_index * quotient + MinOf(thread_index, remainder)
      last(thread_index) == (thread_index + 1) * quotient + MinOf(thread_index + 1, remainder)
  IN [t \in 1..count |-> <<first(t - 1) + 1, last(t - 1)>>]

\* The tasks of a call: the blocks of the range; the fixed subranges of
\* deterministic_for_each; for block_for_each the inner ranges of the range of
\* ranges (the range is their concatenation), each the work of one task.
TasksOf(algo, n) == IF algo = "deterministic_for_each" THEN {DeterministicTasks(n)} ELSE Blockify(n)

\* One parallel loop over all the tasks of a call.
C13_OneLoop(algo, tasks) == IF Len(tasks) = 0 THEN 1 ELSE Len(tasks)

\* The number of tasks of one parallel loop: BlockForEach runs one par::for_each
\* per chunk of num_threads() inner ranges, the others one loop over all tasks.
WidthOf(algo, tasks) ==
  IF algo = "block_for_each" THEN NumThreads
  ELSE IF Len(tasks) = 0 THEN 1 ELSE Len(tasks)

ParAlgos == {"for_each", "deterministic_for_each", "block_for_each", "fold",
             "unstable_copy_if", "transform", "sort"}

\* The state when the primitive is called.
ParCalled(algo, throwing, input, init, tasks) ==
  [algo |-> algo, throwing |-> throwing, input |-> input, init |-> init,
   tasks |-> tasks, width |-> WidthOf(algo, tasks), region |-> 0,
   tstate |-> [t \in 1..Len(tasks) |-> "ready"],
   tpos |-> [t \in 1..Len(tasks) |-> tasks[t][1]],
   buf |-> [t \in 1..Len(tasks) |-> <<>>],
   off |-> [t \in 1..Len(tasks) |-> 0],
   acc |-> [t \in 1..Len(tasks) |-> init],
   marks |-> [i \in 1..Len(input) |-> <<>>],
   out |-> [i \in 1..Len(input) |-> NoValue],
   writes |-> [i \in 1..Len(input) |-> 0],
   index |-> 0, thrown |-> {}, captured |-> 0, ret |-> "none", value |-> 0]

ParInputs == UNION {[1..n -> 0..MaxValue] : n \in 0..MaxLen}

\* A run that calls one parallel primitive on one range.
InitPar ==
  /\ NoMeshCalls /\ GraphOff /\ uni = UniformOff /\ duo = DuoOff
  /\ \E algo \in ParAlgos, throwing \in BOOLEAN, input \in ParInputs :
       \E tasks \in TasksOf(algo, Len(input)) :
         \E init \in (IF algo = "fold" THEN 0..1 ELSE {0}) :
           par = ParCalled(algo, throwing, input, init, tasks)

\* The tasks of the parallel loop that is running.
CurrentTasks(p) == {t \in 1..Len(p.tasks) : (t - 1) \div p.width = p.region}
NumRegions(p) == (Len(p.tasks) + p.width - 1) \div p.width

\* The scheduler starts a task, unless a failure was captured.
ParTaskStart(t) ==
  /\ par.ret = "none" /\ t \in CurrentTasks(par)
  /\ par.tstate[t] = "ready"
  /\ par.captured = 0
  /\ par' = [par EXCEPT !.tstate[t] = "running"]
  /\ UNCHANGED <<meshVars, travVars, graphVars, uni, duo>>

\* A copy that keeps every element.
C11_CopyEvery(buffer, x) == Append(buffer, x)

\* std::ranges::copy_if into the buffer, for one element that did not throw.
CopyIfStep(buffer, x) == IF Pred(x) THEN Append(buffer, x) ELSE buffer

\* The chunk of BufferCap elements a copy-if task is in ends before element pos.
ChunkEnds(task, pos) == pos > task[2] \/ (pos - task[1]) % BufferCap = 0

\* A body that leaves out the element after the one it was called for.
C29_SkipsNext(p, t, i) ==
  [p EXCEPT !.tpos[t] = i + 2, !.marks[i] = Append(@, 0)]

\* What the body of a task does with element i of the range when the function
\* does not throw.
ParApply(p, t, i) ==
  LET x == p.input[i]
      q == [p EXCEPT !.tpos[t] = i + 1]
  IN CASE p.algo \in {"for_each", "block_for_each", "sort"} ->
            [q EXCEPT !.marks[i] = Append(@, 0)]
       [] p.algo = "deterministic_for_each" ->
            [q EXCEPT !.marks[i] = Append(@, t - 1)]
       [] p.algo = "transform" ->
            [q EXCEPT !.out[i] = TransformFunc(x), !.writes[i] = @ + 1]
       [] p.algo = "fold" ->
            [q EXCEPT !.acc[t] = FoldFunc(@, x)]
       [] p.algo = "unstable_copy_if" ->
            [q EXCEPT !.buf[t] = CopyIfStep(@, x),
                      !.tstate[t] = IF ChunkEnds(p.tasks[t], i + 1) THEN "reserve" ELSE @]

\* A body that catches what the function throws and goes on to the next element.
C14_InvokeCatches(t) ==
  /\ par.ret = "none" /\ t \in CurrentTasks(par)
  /\ par.tstate[t] = "running"
  /\ par.tpos[t] <= par.tasks[t][2]
  /\ LET i == par.tpos[t]
     IN par' = IF Throws(par, par.input[i])
                 THEN [par EXCEPT !.tpos[t] = i + 1, !.thrown = @ \cup {i}]
                 ELSE ParApply(par, t, i)
  /\ UNCHANGED <<meshVars, travVars, graphVars, uni, duo>>

\* A running task calls the function for its next element; a throwing call ends
\* the task, and the first error thrown is the one captured.
ParInvoke(t) ==
  /\ par.ret = "none" /\ t \in CurrentTasks(par)
  /\ par.tstate[t] = "running"
  /\ par.tpos[t] <= par.tasks[t][2]
  /\ LET i == par.tpos[t]
     IN par' = IF Throws(par, par.input[i])
                 THEN [par EXCEPT !.tstate[t] = "threw",
                                  !.thrown = @ \cup {i},
                                  !.captured = IF @ = 0 THEN i ELSE @]
                 ELSE ParApply(par, t, i)
  /\ UNCHANGED <<meshVars, travVars, graphVars, uni, duo>>

\* fetch_and_add(index, n): the old value is returned, the sum is stored, in one
\* atomic step.
FetchAndAdd(index, n) == [old |-> index, new |-> index + n]

\* A copy-if task takes its output slots: out + fetch_and_add(index, size).
CopyIfReserve(t) ==
  /\ par.ret = "none" /\ t \in CurrentTasks(par)
  /\ par.tstate[t] = "reserve"
  /\ LET fa == FetchAndAdd(par.index, Len(par.buf[t]))
     IN par' = [par EXCEPT !.off[t] = fa.old, !.index = fa.new, !.tstate[t] = "move"]
  /\ UNCHANGED <<meshVars, travVars, graphVars, uni, duo>>

\* A copy-if task moves its buffer into the slots it took and clears it.
CopyIfMove(t) ==
  /\ par.ret = "none" /\ t \in CurrentTasks(par)
  /\ par.tstate[t] = "move"
  /\ LET slots == {par.off[t] + k : k \in 1..Len(par.buf[t])}
     IN par' = [par EXCEPT
                  !.out = [s \in 1..Len(par.out) |->
                             IF s \in slots THEN par.buf[t][s - par.off[t]] ELSE par.out[s]],
                  !.writes = [s \in 1..Len(par.out) |->
                                IF s \in slots THEN par.writes[s] + 1 ELSE par.writes[s]],
                  !.buf[t] = <<>>,
                  !.tstate[t] = "running"]
  /\ UNCHANGED <<meshVars, travVars, graphVars, uni, duo>>

\* A task that went through its subrange ends.
ParTaskEnd(t) ==
  /\ par.ret = "none" /\ t \in CurrentTasks(par)
  /\ par.tstate[t] = "running"
  /\ par.tpos[t] > par.tasks[t][2]
  /\ par' = [par EXCEPT !.tstate[t] = "done"]
  /\ UNCHANGED <<meshVars, travVars, graphVars, uni, duo>>

\* tbb::parallel_reduce joins the values of the tasks in range order; every task
\* started from the initial value.
RECURSIVE FoldJoin(_, _)
FoldJoin(init, accs) ==
  IF accs = <<>> THEN init
  ELSE IF Len(accs) = 1 THEN accs[1]
  ELSE FoldJoin(init, <<ResultFunc(accs[1], accs[2])>> \o SubSeq(accs, 3, Len(accs)))

\* What the primitive returns: the end of the output (copy-if: out + index,
\* transform: out_end), the value of the fold, nothing for the loops.
ParValue(p) ==
  CASE p.algo = "unstable_copy_if" -> p.index
    [] p.algo = "transform" -> Len(p.input)
    [] p.algo = "fold" -> FoldJoin(p.init, p.acc)
    [] OTHER -> 0

\* The parallel loop is over when no task is running and either all its tasks are
\* done or a failure was captured: the captured error is raised, or the next
\* loop is run (block_for_each), or the primitive returns.
ParRegionDone ==
  /\ par.ret = "none"
  /\ \A t \in CurrentTasks(par) : par.tstate[t] \in {"ready", "done", "threw"}
  /\ par.captured # 0 \/ \A t \in CurrentTasks(par) : par.tstate[t] = "done"
  /\ par' = IF par.captured # 0
              THEN [par EXCEPT !.ret = "raised", !.value = par.captured]
            ELSE IF par.region + 1 < NumRegions(par)
              THEN [par EXCEPT !.region = @ + 1]
            ELSE [par EXCEPT !.ret = "returned", !.value = ParValue(par),
                             !.out = IF par.algo = "sort"
                                       THEN SortSeq(par.input, LAMBDA x, y : x < y)
                                       ELSE @]
  /\ UNCHANGED <<meshVars, travVars, graphVars, uni, duo>>

NextPar ==
  \/ \E t \in 1..MaxLen : ParTaskStart(t)
  \/ \E t \in 1..MaxLen : ParInvoke(t)
  \/ \E t \in 1..MaxLen : CopyIfReserve(t)
  \/ \E t \in 1..MaxLen : CopyIfMove(t)
  \/ \E t \in 1..MaxLen : ParTaskEnd(t)
  \/ ParRegionDone

SpecPar == InitPar /\ [][NextPar]_vars

\* ============================================= calls of UniformPartition

\* first and last of the range [first, last) of a part.
UniformFirst(part, part_size, remainder) == part * part_size + MinOf(part, remainder)

\* last without the share of the remainder.
C16_LastWithoutRemainder(part, part_size, remainder) == (part + 1) * part_size

UniformLast(part, part_size, remainder) == (part + 1) * part_size + MinOf(part + 1, remainder)

\* A run that calls UniformPartition on a graph of num_nodes nodes, with a parts
\* array nothing was written to.
InitUniform ==
  /\ NoMeshCalls /\ GraphOff /\ par = ParOff /\ duo = DuoOff
  /\ \E n \in 0..MaxUniformNodes, k \in 0..MaxUniformParts :
       uni = [num_nodes |-> n, num_parts |-> k, parts |-> [i \in 1..n |-> NoValue],
              part |-> 0, pc |-> "called"]

\* part_size = num_nodes / num_parts and remainder = num_nodes % num_parts.
UniformDivide ==
  /\ uni.pc = "called" /\ uni.num_parts # 0
  /\ uni' = [uni EXCEPT !.pc = "loop"]
  /\ UNCHANGED <<meshVars, travVars, graphVars, par, duo>>

\* With num_parts = 0 the two divisions are undefined: the call traps, or it
\* goes on to the loop over the parts, which has nothing to do.
UniformDivideByZero ==
  /\ uni.pc = "called" /\ uni.num_parts = 0
  /\ \E outcome \in {"trapped", "loop"} : uni' = [uni EXCEPT !.pc = outcome]
  /\ UNCHANGED <<meshVars, travVars, graphVars, par, duo>>

\* One pass of the loop over the parts: parts[i] = part for i in [first, last).
UniformPart ==
  /\ uni.pc = "loop" /\ uni.part < uni.num_parts
  /\ LET part_size == uni.num_nodes \div uni.num_parts
         remainder == uni.num_nodes % uni.num_parts
         first == UniformFirst(uni.part, part_size, remainder)
         last == UniformLast(uni.part, part_size, remainder)
     IN uni' = [uni EXCEPT !.parts = [i \in 1..uni.num_nodes |->
                                        IF first <= i - 1 /\ i - 1 < last THEN uni.part ELSE @[i]],
                           !.part = @ + 1]
  /\ UNCHANGED <<meshVars, travVars, graphVars, par, duo>>

UniformReturn ==
  /\ uni.pc = "loop" /\ uni.part = uni.num_parts
  /\ uni' = [uni EXCEPT !.pc = "done"]
  /\ UNCHANGED <<meshVars, travVars, graphVars, par, duo>>

NextUniform ==
  \/ UniformDivide
  \/ UniformDivideByZero
  \/ UniformPart
  \/ UniformReturn

SpecUniform == InitUniform /\ [][NextUniform]_vars

\* ================================================================== claims
\* ------------------------------------------------------------ particle mesh

\* The last update() call returned normally.
Updated == result = "ok"

\* The last update() call was left by the exception of a search task.
UpdateFailed == result \in {"search failed", "interp failed"}

Dist(a, b) == Abs(r[a] - r[b])

Ends(ab) == {ab[1], ab[2]}

StrictlyAscending(s) == \A i, j \in 1..Len(s) : i < j => s[i] < s[j]

C5_NeighborsAscending ==
  Updated => \A i \in ParticleIds : StrictlyAscending(neighbors(i))

\* C5 happens: a list of an updated mesh holds all the particles.
C5_FullList ==
  /\ Updated
  /\ \E i \in ParticleIds : Len(neighbors(i)) = NumParticles

\* The mirror point of a fixed particle, of the interpolation search.
MirrorPoint(i) == 2 * DomainClamp(r[i]) - r[i]

\* C6 as the specification states it in its example: the fixed particle at 0.05 is
\* mirrored to -0.05, its list holds the particles that are not fixed within
\* 3 * radius_fn(i) of -0.05.
C6_MirroredAcrossWall ==
  Updated =>
    \A i \in ParticleIds : (type[i] = "fixed" /\ r[i] = 5) =>
      Range(fixed_interp(i)) =
        {j \in ParticleIds : type[j] # "fixed" /\ Abs(r[j] - (-5)) <= 3 * radius_func[i]}

\* C6, amended: for every fixed particle i the list interp_neighbors(i) is the
\* ascending list of the particles that are not fixed and lie within
\* 3 * radius_fn(i) of the mirror point 2 * clamp(r_i, Domain) - r_i, which is r_i
\* itself for a particle inside the domain.
C6_InterpNeighbors ==
  Updated =>
    \A i \in ParticleIds : type[i] = "fixed" =>
      /\ Range(fixed_interp(i)) =
           {j \in ParticleIds :
              type[j] # "fixed" /\ Abs(r[j] - MirrorPoint(i)) <= 3 * radius_func[i]}
      /\ StrictlyAscending(fixed_interp(i))
      /\ (DomainLo <= r[i] /\ r[i] <= DomainHi) => MirrorPoint(i) = r[i]

\* C6 happens: the fixed particle at 0.05 of an updated mesh has the particle at
\* 0.03 in its list, which is farther than 3 * radius_fn(i) from -0.05, and another
\* fixed particle lies outside of the domain.
C6_InsideListsNear ==
  /\ Updated
  /\ \E i, j, k \in ParticleIds :
       /\ type[i] = "fixed" /\ r[i] = 5 /\ 3 * radius_func[i] < 8
       /\ type[j] # "fixed" /\ r[j] = 3 /\ j \in Range(fixed_interp(i))
       /\ type[k] = "fixed" /\ r[k] < DomainLo

\* C7: when a task of a search failed, update() is left by the exception and the
\* three outputs of the mesh are empty.
C7_FailureEmptiesOutputs ==
  UpdateFailed =>
    /\ adjacency_.values = <<>>
    /\ interp_adjacency_.values = <<>>
    /\ block_edges_.values = <<>>

\* MultilevelPartition has returned.
Partitioned == gpc = "partitioned"

\* C8: for every weighted graph with N nodes and every K with 1 <= K <= N,
\* MultilevelPartition assigns every node a part in [0, K), leaves no part empty
\* and keeps the heaviest part within 1.05 * (sum of the node weights) / K.
C8_PartsBalanced ==
  Partitioned =>
    /\ \A i \in NodesOf(graph) : fine_parts[i] \in 0..(num_parts - 1)
    /\ \A k \in 0..(num_parts - 1) : \E i \in NodesOf(graph) : fine_parts[i] = k
    /\ \A k \in 0..(num_parts - 1) :
         PartWeight(graph, fine_parts, k) * 100 * num_parts <= 105 * TotalWeight(graph)

\* A coarsening has returned.
Coarsened == gpc = "coarsened" /\ mode \in {"hem", "gem"}

\* The groups of coarse_to_fine, one per coarse node.
Groups == EqualityRanges(coarse_to_fine, fine_to_coarse)

\* C9: after CoarsenHEM and after CoarsenGEM no entry of fine_to_coarse is npos,
\* its values are exactly the nodes of the coarse graph, coarse_to_fine is a
\* permutation of the fine nodes, and for every fine node i the group of
\* coarse_to_fine entries of the coarse node fine_to_coarse[i] contains i. (The
\* model counts the nodes from 1 and holds npos as 0.)
C9_MappingInvariants ==
  Coarsened =>
    /\ \A i \in NodesOf(fine_graph) : fine_to_coarse[i] # NPOS
    /\ Range(fine_to_coarse) = NodesOf(coarse_graph)
    /\ Len(coarse_to_fine) = Len(fine_graph.w)
    /\ Range(coarse_to_fine) = NodesOf(fine_graph)
    /\ Len(Groups) = Len(coarse_graph.w)
    /\ \A i \in NodesOf(fine_graph) : i \in Range(Groups[fine_to_coarse[i]])

\* C9 happens: CoarsenHEM has returned a coarse graph with a node of one fine node
\* and a node of two fine nodes, which no edge of the fine graph joins.
C9_HemGroupsStrangers ==
  /\ Coarsened /\ mode = "hem"
  /\ \E i \in NodesOf(fine_graph) : \A j \in NodesOf(fine_graph) :
       j # i => fine_to_coarse[j] # fine_to_coarse[i]
  /\ \E i, j \in NodesOf(fine_graph) :
       /\ i # j /\ fine_to_coarse[i] = fine_to_coarse[j]
       /\ \A x \in fine_graph.e[i] : x[1] # j

\* The total weight of the edges merged by a coarsening, and the weight of a
\* maximum-weight matching of a graph.
MergedWeight ==
  SumLast({e \in Wedges(fine_graph) : fine_to_coarse[e[1]] = fine_to_coarse[e[2]]})

Matchings(g) ==
  {M \in SUBSET Wedges(g) :
     \A e, f \in M : e # f => {e[1], e[2]} \cap {f[1], f[2]} = {}}

MaxMatchingWeight(g) ==
  LET ws == {SumLast(M) : M \in Matchings(g)}
  IN CHOOSE w \in ws : \A v \in ws : v <= w

\* C10: for every weighted graph the total edge weight of the pairs merged by
\* CoarsenGEM is at least one half of the weight of a maximum-weight matching.
C10_GemHalfOptimal ==
  (Coarsened /\ mode = "gem") => 2 * MergedWeight >= MaxMatchingWeight(fine_graph)

\* C10 happens: CoarsenGEM has merged one pair of a graph and a maximum-weight
\* matching of the graph weighs exactly twice as much.
C10_GemHalfTight ==
  /\ Coarsened /\ mode = "gem"
  /\ MergedWeight > 0
  /\ 2 * MergedWeight = MaxMatchingWeight(fine_graph)

\* C18: after update() with L levels and T threads the level-0 part of every
\* particle is in [0, T), its part at a level l in 1..L-1 is in [l*T, (l+1)*T)
\* or is the sentinel L*T, and every entry of a PartVec no partition function
\* wrote (the levels of a particle outside the interface, and the levels from L
\* on) is the sentinel L*T.
C18_PartVecRanges ==
  Updated =>
    LET T == NumThreads
        L == NumLevels
    IN \A a \in ParticleIds :
         /\ parinfo[a][1] \in 0..(T - 1)
         /\ \A l \in 1..(L - 1) :
              /\ parinfo[a][l + 1] \in (l * T)..((l + 1) * T - 1) \cup {L * T}
              /\ a \notin interface => parinfo[a][l + 1] = L * T
         /\ \A l \in L..(MaxNumLevels - 1) : parinfo[a][l + 1] = L * T

\* C18 witness: one particle kept the sentinel at level 1, another got a part.
C18_SentinelAndPart ==
  /\ Updated
  /\ \E a, b \in ParticleIds :
       /\ parinfo[a][2] = NumLevels * NumThreads
       /\ parinfo[b][2] \in NumThreads..(2 * NumThreads - 1)

HeavierThenLighterEnds(g, e, f) ==
  \/ e[3] > f[3]
  \/ e[3] = f[3] /\ MinOf(g.w[e[1]], g.w[e[2]]) < MinOf(g.w[f[1]], g.w[f[2]])

\* C20: CoarsenGEM visits the edges by weight descending and, among edges of one
\* weight, by the lesser node weight of their ends ascending: no edge is visited
\* while an edge that comes before it in that order waits; and an edge is merged
\* when visited exactly when both its ends are unmatched.
C20_LighterNodesFirst ==
  (mode = "gem" /\ gpc = "visit") =>
    \A e \in Wedges(fine_graph) \ unvisited : \A f \in unvisited :
      ~HeavierThenLighterEnds(fine_graph, f, e)

\* The fine nodes a and b are joined by an edge of the graph g.
Adjacent(g, a, b) == \E x \in g.e[a] : x[1] = b

\* C21: CoarsenHEM merges a visited unmatched node with the unmatched neighbor it
\* chose: the two get one coarse id that no other fine node gets, so two
\* different fine nodes that share a coarse id are adjacent in the fine graph.
C21_HemMergesNeighbors ==
  (mode = "hem" /\ gpc \in {"visit", "coarsened"}) =>
    \A a, b \in NodesOf(fine_graph) :
      (a # b /\ fine_to_coarse[a] # NPOS /\ fine_to_coarse[a] = fine_to_coarse[b])
        => Adjacent(fine_graph, a, b)

\* The weighted-graph invariants: no node lists itself, no neighbor is listed
\* twice, and every entry has its mirror with the same weight.
NoSelfLoops(g) == \A a \in NodesOf(g) : \A x \in g.e[a] : x[1] # a
NoDuplicateEdges(g) == \A a \in NodesOf(g) : \A x, y \in g.e[a] : x[1] = y[1] => x = y
SymmetricEdges(g) == \A a \in NodesOf(g) : \A x \in g.e[a] : <<a, x[2]>> \in g.e[x[1]]

\* C22: the coarse graph build_coarse_graph assembles from a fine graph with the
\* weighted-graph invariants and a matching of HEM or GEM has them again: no
\* coarse node lists itself as a neighbor, none lists a neighbor twice, and the
\* adjacency is symmetric with equal weights.
C22_CoarseGraphInvariants ==
  Coarsened =>
    /\ NoSelfLoops(coarse_graph)
    /\ NoDuplicateEdges(coarse_graph)
    /\ SymmetricEdges(coarse_graph)

\* The fine nodes of the coarse node c, and the weight of the coarse edge (c, d)
\* (0: no entry).
FineNodesOf(c) == {a \in NodesOf(fine_graph) : fine_to_coarse[a] = c}
CoarseEdgeWeight(c, d) ==
  SumLast({<<c, x[1], x[2]>> : x \in {y \in coarse_graph.e[c] : y[1] = d}})

\* C23: the coarse graph is the quotient of the fine graph by fine_to_coarse: the
\* weight of a coarse node is the sum of the weights of its fine nodes (the total
\* weight is kept), and the weight of the coarse edge between two different
\* coarse nodes is the sum of the weights of the fine edges between their fine
\* nodes, with no entry exactly when there is no such fine edge.
C23_CoarseIsQuotient ==
  Coarsened =>
    /\ \A c \in NodesOf(coarse_graph) :
         coarse_graph.w[c] = SumLast({<<a, fine_graph.w[a]>> : a \in FineNodesOf(c)})
    /\ TotalWeight(coarse_graph) = TotalWeight(fine_graph)
    /\ \A c, d \in NodesOf(coarse_graph) :
         c # d =>
           LET joining == UNION {{<<a, y[1], y[2]>> :
                                    y \in {z \in fine_graph.e[a] : fine_to_coarse[z[1]] = d}} :
                                   a \in FineNodesOf(c)}
           IN /\ CoarseEdgeWeight(c, d) = SumLast(joining)
              /\ (\E y \in coarse_graph.e[c] : y[1] = d) <=> joining # {}
              /\ Cardinality({y \in coarse_graph.e[c] : y[1] = d}) <= 1

\* C23 witness: a coarse edge that sums two fine edges.
C23_TwoEdgesSummed ==
  /\ Coarsened
  /\ \E c, d \in NodesOf(coarse_graph) :
       /\ c # d
       /\ Cardinality({e \in Wedges(fine_graph) :
                         {fine_to_coarse[e[1]], fine_to_coarse[e[2]]} = {c, d}}) >= 2

\* The graph is a triangle of unit weights next to nodes without edges.
UnitTriangle(g) ==
  /\ \A a \in NodesOf(g) : g.w[a] = 1
  /\ Cardinality(Wedges(g)) = 3
  /\ \A e \in Wedges(g) : e[3] = 1
  /\ Cardinality(UNION {{e[1], e[2]} : e \in Wedges(g)}) = 3

\* C24: CoarsenGEM returns a maximal matching: a coarse node has one or two fine
\* nodes, two fine nodes of one coarse node are joined by an edge, and no edge
\* joins two fine nodes that are alone in their coarse nodes; the three nodes of
\* a unit-weight triangle end as one pair and one single node.
C24_GemMaximalMatching ==
  (Coarsened /\ mode = "gem") =>
    /\ \A c \in NodesOf(coarse_graph) : Cardinality(FineNodesOf(c)) \in {1, 2}
    /\ \A a \in NodesOf(fine_graph) : fine_to_coarse[a] \in NodesOf(coarse_graph)
    /\ \A a, b \in NodesOf(fine_graph) :
         (a # b /\ fine_to_coarse[a] = fine_to_coarse[b]) => Adjacent(fine_graph, a, b)
    /\ \A e \in Wedges(fine_graph) :
         Cardinality(FineNodesOf(fine_to_coarse[e[1]])) = 2
           \/ Cardinality(FineNodesOf(fine_to_coarse[e[2]])) = 2
    /\ UnitTriangle(fine_graph) =>
         Cardinality({fine_to_coarse[a] : a \in UNION {{e[1], e[2]} : e \in Wedges(fine_graph)}}) = 2

\* C24 witness: CoarsenGEM has coarsened a unit-weight triangle.
C24_TriangleCoarsened ==
  /\ Coarsened /\ mode = "gem"
  /\ UnitTriangle(fine_graph)
  /\ \E c \in NodesOf(coarse_graph) : Cardinality(FineNodesOf(c)) = 2

\* C30: during CoarsenHEM every index a node weight is read at is a node id of
\* the fine graph; in particular the weight of best_neighbor is never read while
\* best_neighbor is still NPOS, and the call never ends inside the scan.
C30_WeightReadsInRange ==
  mode = "hem" => (bad_reads = {} /\ gpc # "trapped")

\* C26: whenever MultilevelPartition calls the coarsest partitioner on a coarse
\* graph, the number of parts is at most the number of coarse nodes.
C26_CoarsestHasEnoughNodes ==
  (mode = "multilevel" /\ gpc = "coarsened"
     /\ StopCoarsening(fine_graph, coarse_graph, num_parts))
    => num_parts <= Len(coarse_graph.w)

\* C27: the parts of a coarse graph projected to the fine graph of the level have,
\* before the refinement, the same weight in every part and the same cut weight
\* as the coarse parts have on the coarse graph, and the fine nodes of one coarse
\* node are in one part.
C27_ProjectionKeepsQuality ==
  (gpc = "project" /\ levels # <<>>) =>
    LET lvl == levels[Len(levels)]
        projected == Project(fine_parts, lvl.f2c)
    IN /\ DOMAIN projected = NodesOf(lvl.g)
       /\ \A k \in 0..(num_parts - 1) :
            PartWeight(lvl.g, projected, k) = PartWeight(lvl.cg, fine_parts, k)
       /\ EdgeCut(lvl.g, projected) = EdgeCut(lvl.cg, fine_parts)
       /\ \A a, b \in NodesOf(lvl.g) :
            lvl.f2c[a] = lvl.f2c[b] => projected[a] = projected[b]

\* A coarse partitioning with a cut edge is projected through a merged pair.
C27_CutProjectedThroughPair ==
  /\ gpc = "project" /\ levels # <<>>
  /\ LET lvl == levels[Len(levels)]
     IN /\ EdgeCut(lvl.cg, fine_parts) > 0
        /\ \E a, b \in NodesOf(lvl.g) : a # b /\ lvl.f2c[a] = lvl.f2c[b]
        /\ \E k, l \in 0..(num_parts - 1) :
             k # l /\ PartWeight(lvl.cg, fine_parts, k) > PartWeight(lvl.cg, fine_parts, l)
                   /\ PartWeight(lvl.cg, fine_parts, l) > 0

\* A level that has coarsened its graph goes one level deeper: the coarse graph
\* has more than 15 K nodes and fewer than 0.8 times the nodes of the fine graph,
\* and it is the fine graph of the next level.
RecursesWhenLargeAndShrinking ==
  (mode = "multilevel" /\ gpc = "coarsened" /\ gpc' = "visit") =>
    /\ Len(coarse_graph.w) > StopFactor * num_parts
    /\ Len(coarse_graph.w) * StallDen < Len(fine_graph.w) * StallNum
    /\ fine_graph' = coarse_graph
    /\ Len(levels') = Len(levels) + 1

\* A level that has coarsened its graph and does not go deeper has the coarse
\* graph partitioned by the coarsest partitioner.
PartitionsCoarsestOtherwise ==
  (mode = "multilevel" /\ gpc = "coarsened" /\ gpc' # "visit") =>
    /\ ~(/\ Len(coarse_graph.w) > StopFactor * num_parts
         /\ Len(coarse_graph.w) * StallDen < Len(fine_graph.w) * StallNum)
    /\ gpc' = "project"
    /\ fine_parts' \in GreedyPartitions(coarse_graph, num_parts)
    /\ Len(levels') = Len(levels) + 1

\* On the way back a step leaves exactly one level, the innermost one, with the
\* projection of the coarse parts refined once on the fine graph of that level.
OneProjectionAndRefinement ==
  (gpc = "project" /\ levels # <<>>) =>
    LET lvl == levels[Len(levels)]
    IN /\ levels' = SubSeq(levels, 1, Len(levels) - 1)
       /\ fine_parts' \in RefinePartsFM(lvl.g, Project(fine_parts, lvl.f2c), num_parts)
       /\ gpc' = IF levels' = <<>> THEN "partitioned" ELSE "project"

\* The graphs of the levels entered have strictly fewer nodes level by level.
NodeCountDecreases ==
  \A i \in 1..(Len(levels) - 1) : Len(levels[i + 1].g.w) < Len(levels[i].g.w)

\* C25: MultilevelPartition terminates; after a coarsening it recurses only if
\* the coarse graph has more than 15 K nodes and fewer than 0.8 times the nodes
\* of the fine graph, and calls the coarsest partitioner otherwise; the node
\* count strictly decreases along the recursion; on the way back every level
\* does exactly one projection followed by one refinement.
C25_MultilevelTerminates ==
  /\ [][RecursesWhenLargeAndShrinking /\ PartitionsCoarsestOtherwise
          /\ OneProjectionAndRefinement]_vars
  /\ [](NodeCountDecreases /\ (gpc = "partitioned" => levels = <<>>))
  /\ <>(gpc = "partitioned")

\* A call is on its way back from the second level.
C25_BackFromSecondLevel ==
  /\ mode = "multilevel" /\ gpc = "project" /\ Len(levels) = 2
  /\ Len(levels[2].g.w) < Len(levels[1].g.w)

\* C28: two meshes of one type updated at the same time on two threads, each over
\* its own particle array, end with the adjacency_, interp_adjacency_ and
\* block_edges_ they have when the updates run one after the other: the lists
\* are those of the mesh's own particles, the second level was computed over
\* the interface of the mesh's own first level, and the block edges are those of
\* the mesh's own parts.
C28_ConcurrentAsSequential ==
  /\ (duo.pc # "off" /\ result = "ok") =>
       /\ adjacency_ = Compress(DuoNeighbors(r))
       /\ interp_adjacency_ = Compress(DuoInterpLists(r))
       /\ \A a \in ParticleIds : parinfo[a][2] # SentinelPart <=> IsInterface(parinfo, 0, a)
       /\ block_edges_ = AssembleBlockEdges(parinfo)
  /\ duo.pc = "done" =>
       /\ duo.adjacency_ = Compress(DuoNeighbors(duo.r))
       /\ duo.interp_adjacency_ = Compress(DuoInterpLists(duo.r))

\* ------------------------------------------------------- parallel primitives

\* The call of the primitive returned normally.
ParReturned(algo) == par.algo = algo /\ par.ret = "returned"

\* The number of entries of a sequence equal to v.
CountIn(s, v) == Cardinality({i \in 1..Len(s) : s[i] = v})

\* C11: par::unstable_copy_if(range, out, pred) returns out + k, k the number of
\* elements satisfying pred, and out[0..k) holds exactly the elements satisfying
\* pred, as a multiset, for every interleaving of the tasks; no output slot is
\* ever written twice, every slot below k is written and no slot from k on.
C11_CopyIfMultiset ==
  par.algo = "unstable_copy_if" =>
    /\ \A s \in 1..Len(par.out) : par.writes[s] <= 1
    /\ par.ret = "returned" =>
         LET kept == SelectSeq(par.input, Pred)
             k == Len(kept)
         IN /\ par.value = k
            /\ \A v \in 0..MaxValue : CountIn(SubSeq(par.out, 1, k), v) = CountIn(kept, v)
            /\ \A s \in 1..Len(par.out) : par.writes[s] = (IF s <= k THEN 1 ELSE 0)
            /\ \A s \in 1..Len(par.out) : s > k => par.out[s] = NoValue

\* C11 happens: unstable_copy_if returned an output of two tasks that is not in
\* the order of the input.
C11_OutOfOrder ==
  /\ ParReturned("unstable_copy_if")
  /\ par.value >= 2
  /\ SubSeq(par.out, 1, par.value) # SelectSeq(par.input, Pred)

\* The elements of the range the function was called for, in a call that threw
\* nothing or was not over yet.
Marked(p) == {i \in 1..Len(p.input) : p.marks[i] # <<>>}

\* C12: deterministic_for_each over N elements with T threads calls the function
\* exactly once per element and passes to the element at index i (from 0) the
\* thread index t with t*q + min(t, r) <= i < (t+1)*q + min(t+1, r), q = N div T,
\* r = N mod T: T contiguous chunks of floor(N/T) or ceil(N/T) elements, the
\* larger ones first, whatever the order the tasks ran in.
C12_ThreadIndexFixed ==
  ParReturned("deterministic_for_each") =>
    LET N == Len(par.input)
        T == NumThreads
        q == N \div T
        rem == N % T
        Low(t) == t * q + (IF t < rem THEN t ELSE rem)
        SizeOf(t) == Cardinality({i \in 1..N : par.marks[i] = <<t>>})
    IN /\ \A i \in 1..N :
            /\ Len(par.marks[i]) = 1
            /\ par.marks[i][1] \in 0..(T - 1)
            /\ Low(par.marks[i][1]) <= i - 1
            /\ i - 1 < Low(par.marks[i][1] + 1)
       /\ \A t \in 0..(T - 1) : SizeOf(t) \in {q, q + 1}
       /\ \A t \in 0..(T - 2) : SizeOf(t) >= SizeOf(t + 1)

\* C12 witness: three elements on two threads, the first thread got two of them.
C12_UnevenChunks ==
  /\ ParReturned("deterministic_for_each")
  /\ Len(par.input) = 3
  /\ par.marks = <<(<<0>>), (<<0>>), (<<1>>)>>

\* The tasks (inner ranges) of chunk c of a block_for_each.
TasksOfChunk(p, c) == {t \in 1..Len(p.tasks) : (t - 1) \div NumThreads = c}
ElementsOf(p, t) == p.tasks[t][1]..p.tasks[t][2]

ChunkOf(t) == (t - 1) \div NumThreads

\* C29: block_for_each groups the inner ranges into consecutive chunks of
\* num_threads() and processes the chunks strictly one after another: no inner
\* range of a chunk is touched before all the inner ranges of the chunks before
\* it are finished, and the inner ranges at work at one time are of one chunk.
\* The elements of one inner range are visited by one task in range order (the
\* elements visited are always the first ones of the range), no element is ever
\* visited twice, and when the call returns every element was visited once.
C29_BlockForEachChunks ==
  par.algo = "block_for_each" =>
    /\ \A t, u \in 1..Len(par.tasks) :
         (ChunkOf(t) < ChunkOf(u) /\ par.tstate[u] # "ready")
           => (par.tstate[t] = "done" /\ ElementsOf(par, t) \subseteq Marked(par))
    /\ \A t, u \in 1..Len(par.tasks) :
         (par.tstate[t] = "running" /\ par.tstate[u] = "running") => ChunkOf(t) = ChunkOf(u)
    /\ \A t \in 1..Len(par.tasks) :
         /\ par.tstate[t] = "ready" => ElementsOf(par, t) \cap Marked(par) = {}
         /\ \A i, j \in ElementsOf(par, t) : (i < j /\ j \in Marked(par)) => i \in Marked(par)
    /\ \A i \in 1..Len(par.input) : Len(par.marks[i]) <= 1
    /\ par.ret = "returned" => \A i \in 1..Len(par.input) : Len(par.marks[i]) = 1

\* Two inner ranges of one chunk are at work at the same time, one of them
\* between two of its elements.
C29_TwoInnerRangesAtWork ==
  /\ par.algo = "block_for_each"
  /\ \E t, u \in 1..Len(par.tasks) :
       /\ t # u /\ ChunkOf(t) = ChunkOf(u)
       /\ par.tstate[t] = "running" /\ par.tstate[u] = "running"
       /\ ElementsOf(par, t) \cap Marked(par) # {}
       /\ ElementsOf(par, t) \ Marked(par) # {}
       /\ ElementsOf(par, u) \cap Marked(par) # {}

\* C14: when a call of the user's function throws, the primitive (each of the
\* seven) does not return normally: it raises one of the errors thrown, only
\* when no task that had started is still at work, and once the failure is
\* captured no task is started and no later chunk of a block_for_each is run.
C14_FailureRaised ==
  /\ [](par.ret = "returned" => par.thrown = {})
  /\ [](par.ret = "raised" =>
          /\ par.value \in par.thrown
          /\ Throws(par, par.input[par.value])
          /\ \A t \in 1..Len(par.tasks) : par.tstate[t] \in {"ready", "done", "threw"})
  /\ [](par.thrown # {} => par.captured \in par.thrown)
  /\ [][par.captured # 0 =>
          /\ \A t \in 1..Len(par.tasks) : par.tstate[t] = "ready" => par'.tstate[t] = "ready"
          /\ par'.region = par.region
          /\ par'.captured = par.captured
          /\ par'.ret \in {"none", "raised"}]_vars

\* C14 witness: two tasks threw, a third was never started, one error was raised.
C14_OneOfTwoRaised ==
  /\ par.ret = "raised"
  /\ Cardinality(par.thrown) = 2
  /\ \E t \in 1..Len(par.tasks) : par.tstate[t] = "ready"

\* std::ranges::fold_left of the body over a sequence, from a start value.
RECURSIVE FoldLeft(_, _)
FoldLeft(start, s) == IF s = <<>> THEN start ELSE FoldLeft(FoldFunc(start, Head(s)), Tail(s))

\* C15: fold with an associative combination returns the sequential left fold
\* of the body over the range from init, whatever blocks the range was split
\* into.
C15_FoldIsLeftFold ==
  ParReturned("fold") => par.value = FoldLeft(par.init, par.input)

\* ------------------------------------------------------------ partitioners

\* C16: UniformPartition with N nodes and K parts writes a part in [0, K) to
\* every node; part p gets exactly the nodes [p*q + min(p, r),
\* (p+1)*q + min(p+1, r)), q = N div K, r = N mod K, so the parts do not decrease
\* along the node ids and two part sizes differ by at most 1.
C16_UniformRanges ==
  (uni.pc = "done" /\ uni.num_parts > 0) =>
    LET N == uni.num_nodes
        K == uni.num_parts
        q == N \div K
        rem == N % K
        Low(p) == p * q + (IF p < rem THEN p ELSE rem)
        NodesIn(p) == {i \in 0..(N - 1) : uni.parts[i + 1] = p}
    IN /\ \A i \in 1..N : uni.parts[i] \in 0..(K - 1)
       /\ \A p \in 0..(K - 1) : NodesIn(p) = {i \in 0..(N - 1) : Low(p) <= i /\ i < Low(p + 1)}
       /\ \A i, j \in 1..N : i < j => uni.parts[i] <= uni.parts[j]
       /\ \A p, s \in 0..(K - 1) : Abs(Cardinality(NodesIn(p)) - Cardinality(NodesIn(s))) <= 1

\* C16 witness: five nodes in three parts of 2, 2 and 1 nodes.
C16_FiveInThree ==
  /\ uni.pc = "done"
  /\ uni.num_parts = 3
  /\ uni.parts = <<0, 0, 1, 1, 2>>

\* C17: a partition request with more parts than nodes, or with no part, is
\* rejected before any part is written: it writes nothing and does not return
\* as if it had partitioned.
C17_InvalidRequestRejected ==
  (uni.pc # "off" /\ (uni.num_parts = 0 \/ uni.num_parts > uni.num_nodes)) =>
    /\ \A i \in 1..uni.num_nodes : uni.parts[i] = NoValue
    /\ uni.pc # "done"

====
